---- MODULE Spec2Model ----
(***************************************************************************)
(* Hybrid Book Index: configuration store, quality-gated query pipeline    *)
(* and reciprocal rank fusion, modelled from src/src/core/config_store.py, *)
(* src/src/main.py, src/src/core/llm_client.py and src/src/core/crud.py.   *)
(*                                                                         *)
(* Floats of the program (thresholds, confidence, temperature) are held as *)
(* integer hundredths: 0.7 is 70, 2.0 is 200.  Only comparisons are made   *)
(* on them, which the scaling preserves.                                   *)
(***************************************************************************)
EXTENDS Integers, Sequences, FiniteSets, TLC

\* Python's None, for a slot that otherwise holds a record.
None == [is_none |-> TRUE]

(***************************************************************************)
(* RAGConfig and the configuration store                                   *)
(***************************************************************************)

\* Defaults that ask for three chunks.
DefaultConfigOfThreeChunks ==
    [retrieval_top_k      |-> 10,
     min_chunks           |-> 3,
     confidence_threshold |-> 70,
     relevance_threshold  |-> 50,
     max_context_length   |-> 4000,
     temperature          |-> 10,
     enable_fallback      |-> TRUE]

\* DEFAULT_CONFIG of config_store.py (the RAGConfig field defaults agree).
DEFAULT_CONFIG ==
    [retrieval_top_k      |-> 10,
     min_chunks           |-> 2,
     confidence_threshold |-> 70,
     relevance_threshold  |-> 50,
     max_context_length   |-> 4000,
     temperature          |-> 10,
     enable_fallback      |-> TRUE]

\* RAGConfig(**fields): the defaults with the given fields replaced.
WithTopK(c, v)      == [c EXCEPT !.retrieval_top_k = v]
WithMinChunks(c, v) == [c EXCEPT !.min_chunks = v]
WithConfidence(c, v) == [c EXCEPT !.confidence_threshold = v]
WithRelevance(c, v) == [c EXCEPT !.relevance_threshold = v]
WithMaxContext(c, v) == [c EXCEPT !.max_context_length = v]
WithTemperature(c, v) == [c EXCEPT !.temperature = v]
WithFallback(c, v)  == [c EXCEPT !.enable_fallback = v]

\* The payloads PUT /config is driven with: the defaults with one field moved
\* to a value on either side of its validation bound, and two payloads that
\* move retrieval_top_k and min_chunks together.  Mixing the fields of two
\* accepted payloads never yields an accepted payload of this set, so a torn
\* read is told apart from a whole one.
ConfigInputs ==
    {DEFAULT_CONFIG}
    \cup {WithTopK(DEFAULT_CONFIG, v) : v \in {0, 1, 3}}
    \cup {WithMinChunks(DEFAULT_CONFIG, v) : v \in {0, 1, 11}}
    \cup {WithConfidence(DEFAULT_CONFIG, v) : v \in {-1, 0, 100, 101}}
    \cup {WithRelevance(DEFAULT_CONFIG, v) : v \in {-1, 101}}
    \cup {WithMaxContext(DEFAULT_CONFIG, v) : v \in {99}}
    \cup {WithTemperature(DEFAULT_CONFIG, v) : v \in {-1, 201}}
    \cup {WithFallback(DEFAULT_CONFIG, FALSE)}
    \cup {WithMinChunks(WithTopK(DEFAULT_CONFIG, 1), 1),
          WithMinChunks(WithTopK(DEFAULT_CONFIG, 3), 3)}

\* _validate_config: the ValueError message of the first failing check, in
\* the order of the code, or "ok" when it returns without raising.
validate_config_no_order_check(config) ==
    IF config.retrieval_top_k < 1 THEN "retrieval_top_k must be at least 1"
    ELSE IF config.min_chunks < 1 THEN "min_chunks must be at least 1"
    ELSE IF ~(0 <= config.confidence_threshold /\ config.confidence_threshold <= 100)
        THEN "confidence_threshold must be between 0.0 and 1.0"
    ELSE IF ~(0 <= config.relevance_threshold /\ config.relevance_threshold <= 100)
        THEN "relevance_threshold must be between 0.0 and 1.0"
    ELSE IF config.max_context_length < 100 THEN "max_context_length must be at least 100"
    ELSE IF ~(0 <= config.temperature /\ config.temperature <= 200)
        THEN "temperature must be between 0.0 and 2.0"
    ELSE "ok"

validate_config(config) ==
    IF config.retrieval_top_k < 1 THEN "retrieval_top_k must be at least 1"
    ELSE IF config.min_chunks < 1 THEN "min_chunks must be at least 1"
    ELSE IF ~(0 <= config.confidence_threshold /\ config.confidence_threshold <= 100)
        THEN "confidence_threshold must be between 0.0 and 1.0"
    ELSE IF ~(0 <= config.relevance_threshold /\ config.relevance_threshold <= 100)
        THEN "relevance_threshold must be between 0.0 and 1.0"
    ELSE IF config.max_context_length < 100 THEN "max_context_length must be at least 100"
    ELSE IF ~(0 <= config.temperature /\ config.temperature <= 200)
        THEN "temperature must be between 0.0 and 2.0"
    ELSE IF config.min_chunks > config.retrieval_top_k
        THEN "min_chunks cannot be greater than retrieval_top_k"
    ELSE "ok"

\* The documented bounds of a RAGConfig (spec 4.9), stated apart from the code.
Acceptable(c) ==
    /\ c.retrieval_top_k >= 1
    /\ c.min_chunks >= 1
    /\ c.min_chunks <= c.retrieval_top_k
    /\ c.confidence_threshold >= 0 /\ c.confidence_threshold <= 100
    /\ c.relevance_threshold >= 0 /\ c.relevance_threshold <= 100
    /\ c.max_context_length >= 100
    /\ c.temperature >= 0 /\ c.temperature <= 200

\* The threads that call the configuration functions, and the one that serves
\* POST /query.
Threads == {"t1", "t2"}
QueryThread == "q"
AllThreads == Threads \cup {QueryThread}
Free == "free"

VARIABLES
    config_store,   \* _config_store: None or the live RAGConfig
    config_lock,    \* _config_lock: Free or the thread that holds it
    pc,             \* each configuration thread's position
    new_config,     \* update_rag_config's argument, per thread
    ret,            \* the value the thread's last call returned (None: nothing yet)
    raised,         \* the message of the ValueError the last call raised, or ""
    pre_config,     \* history: the configuration in force when the thread's update was
                    \* rejected, while no update or reset has replaced it since
    fresh,          \* history: no update has succeeded since start or the last reset
    ever_updated    \* history: some update has succeeded

configVars == <<config_store, config_lock, pc, new_config, ret, raised, pre_config, fresh,
                ever_updated>>

VARIABLES
    body,           \* the JSON body of the POST /query being served
    top_k_used,     \* the top_k handed to hybrid_retrieve: <<>> before the call, else <<n>>
    chunks,         \* retrieved_chunks: the chunk ids hybrid_retrieve returned, in order
    llm_called,     \* generate_grounded_answer was invoked for this query
    answer,         \* the Answer generate_grounded_answer returned, or None
    response,       \* the QueryResponse returned, or None while the query runs
    escaped         \* an exception reached query_books' except clause

queryVars == <<body, top_k_used, chunks, llm_called, answer, response, escaped>>

VARIABLES
    lexical_results,  \* reciprocal_rank_fusion's first argument
    vector_results,   \* reciprocal_rank_fusion's second argument
    fused_results,    \* its result
    rrf_pc            \* "input" before the call, "fused" after

rrfVars == <<lexical_results, vector_results, fused_results, rrf_pc>>

VARIABLES
    embedding_outcome,  \* what generate_embeddings_for_chunks does for the query text
    lexical_index,      \* the full-text index: its ranked matches for the query, or a failure
    vector_index,       \* the vector index: its ranked neighbours of the query, or a failure
    hr_top_k,           \* hybrid_retrieve's top_k argument
    hr_book_id,         \* hybrid_retrieve's book_id argument: <<>> for None, else <<b>>
    chunk_rows,         \* the ids of the rows of the chunks table
    retrieved,          \* the chunk ids of the list hybrid_retrieve returned, in order
    hr_raised,          \* an exception left hybrid_retrieve
    hr_pc               \* "input" before the call, "done" after

retrieveVars == <<embedding_outcome, lexical_index, vector_index, hr_top_k, hr_book_id,
                  chunk_rows, retrieved, hr_raised, hr_pc>>

VARIABLES
    raw_answer,     \* _validate_answer_response's argument: the parsed JSON object
    validated,      \* the Answer it returned, ValidationError when it raised, None before
    validate_pc     \* "input" before the call, "done" after

validateVars == <<raw_answer, validated, validate_pc>>

VARIABLES
    chunks_table,            \* the committed rows of the chunks table (and of chunks_fts)
    db_session,              \* the rows added and flushed in the open transaction, in order
    chunk_embeddings,        \* the chunk ids that have a row in the vector tables
    chunks_with_embeddings,  \* create_chunks_and_embeddings' argument
    loop_i,                  \* the position of the for loop of line 418
    ingest_ret,              \* the value the pass returned: <<>> while it runs
    ingest_pc,               \* the position of the ingestion pass
    passes,                  \* history: the number of passes started
    latest_pass              \* history: the number of the last pass that returned True
                             \* after storing chunks, 0 when there is none

ingestVars == <<chunks_table, db_session, chunk_embeddings, chunks_with_embeddings, loop_i,
                ingest_ret, ingest_pc, passes, latest_pass>>

VARIABLES
    worker_max_tries,   \* worker_settings.max_tries, handed to the arq Worker
    job_try,            \* per job: ctx["job_try"] of its current or last attempt, 0 before
    job_state,          \* per job: its place in the queue's life cycle
    dlq                 \* the Redis list dlq:book_processing, oldest entry first

workerVars == <<worker_max_tries, job_try, job_state, dlq>>

VARIABLES
    text,            \* _perform_semantic_chunking's text: its pieces between blank lines
    chunk_size,      \* its chunk_size argument
    paragraphs,      \* the stripped, non-blank paragraphs (line 333)
    para_i,          \* the position of the for loop of line 340
    current_chunk,   \* the text accumulated for the chunk under construction
    current_page,    \* the page of the last marker seen
    chunk_order,     \* the ordinal of the chunk under construction
    sem_chunks,      \* the list of chunk dictionaries built so far; the result at the end
    chunk_pc         \* "input", "loop", "done"

chunkVars == <<text, chunk_size, paragraphs, para_i, current_chunk, current_page,
               chunk_order, sem_chunks, chunk_pc>>

VARIABLES
    san_text,     \* sanitize_text_for_llm's text argument, as a sequence of tokens
    san_result,   \* the SanitizationResult of the call, None before it
    san_second,   \* the SanitizationResult of sanitizing san_result.sanitized_text
    san_pc        \* "input", "once" after the first call, "twice" after the second

sanitizeVars == <<san_text, san_result, san_second, san_pc>>

VARIABLES
    vs_index,       \* the vector index: its ranked neighbours of the query, or a failure
    vs_limit,       \* vector_search's limit argument
    vs_book_id,     \* its book_id argument: <<>> for None, else <<b>>
    vs_rows,        \* the ids of the rows of the chunks table
    vs_lookup_ok,   \* the SELECT of lines 614-617 succeeds
    vs_result,      \* the list vector_search returned
    vs_pc           \* "input" before the call, "done" after

vectorVars == <<vs_index, vs_limit, vs_book_id, vs_rows, vs_lookup_ok, vs_result, vs_pc>>

VARIABLES
    provider_cache,    \* LLMRouter._provider_cache: per role the cached provider, 0 for no entry
    llm_configs,       \* the llm_configurations rows: per role the provider_name of its
                       \* active row, "none" without one
    session_local,     \* database.SessionLocal is set (initialize_database has run)
    providers_made,    \* history: the number of provider objects created so far
    last_call          \* history: what the last get_provider_for_role did, None before

routerVars == <<provider_cache, llm_configs, session_local, providers_made, last_call>>

\* The variables the configuration functions never touch.
OutsideConfig == <<queryVars, rrfVars, retrieveVars, validateVars, ingestVars, workerVars,
                   chunkVars, sanitizeVars, vectorVars, routerVars>>

\* What get_rag_config returns for a given store content (lines 43-46).
Effective(store) == IF store = None THEN DEFAULT_CONFIG ELSE store

ConfigInit ==
    /\ config_store = None
    /\ config_lock = Free
    /\ pc = [t \in AllThreads |-> "idle"]
    /\ new_config = [t \in Threads |-> None]
    /\ ret = [t \in AllThreads |-> None]
    /\ raised = [t \in Threads |-> ""]
    /\ pre_config = [t \in Threads |-> None]
    /\ fresh = TRUE
    /\ ever_updated = FALSE

\* `with _config_lock:` entered by thread t at position `from`.
Acquire(t, from, to) ==
    /\ pc[t] = from
    /\ config_lock = Free
    /\ config_lock' = t
    /\ pc' = [pc EXCEPT ![t] = to]

\* ---- get_rag_config ----
GetCall(t) ==
    /\ pc[t] = "idle"
    /\ pc' = [pc EXCEPT ![t] = "get_lock"]
    /\ ret' = [ret EXCEPT ![t] = None]
    /\ raised' = [raised EXCEPT ![t] = ""]
    /\ UNCHANGED <<config_store, config_lock, new_config, pre_config, fresh,
                 ever_updated, OutsideConfig>>

GetAcquire(t) ==
    /\ Acquire(t, "get_lock", "get_body")
    /\ UNCHANGED <<config_store, new_config, ret, raised, pre_config, fresh,
                 ever_updated, OutsideConfig>>

\* Lines 43-46: initialise on first read, return the store, leave the lock.
GetBody(t) ==
    /\ pc[t] = "get_body"
    /\ config_lock = t
    /\ config_store' = IF config_store = None THEN DEFAULT_CONFIG ELSE config_store
    /\ ret' = [ret EXCEPT ![t] = config_store']
    /\ config_lock' = Free
    /\ pc' = [pc EXCEPT ![t] = "got"]
    /\ UNCHANGED <<new_config, raised, pre_config, fresh, ever_updated, OutsideConfig>>

\* ---- update_rag_config ----
\* Line 68: _validate_config(new_config) before the lock is taken; a
\* ValueError leaves the function there.
UpdateCallUnchecked(t) ==
    /\ pc[t] = "idle"
    /\ \E c \in ConfigInputs :
        /\ new_config' = [new_config EXCEPT ![t] = c]
        /\ pre_config' = [pre_config EXCEPT
               ![t] = IF Acceptable(c) THEN None ELSE Effective(config_store)]
        /\ ret' = [ret EXCEPT ![t] = None]
        /\ raised' = [raised EXCEPT ![t] = ""]
        /\ pc' = [pc EXCEPT ![t] = "upd_lock"]
    /\ UNCHANGED <<config_store, config_lock, fresh, ever_updated, OutsideConfig>>

UpdateCall(t) ==
    /\ pc[t] = "idle"
    /\ \E c \in ConfigInputs :
        /\ new_config' = [new_config EXCEPT ![t] = c]
        /\ pre_config' = [pre_config EXCEPT
               ![t] = IF Acceptable(c) THEN None ELSE Effective(config_store)]
        /\ ret' = [ret EXCEPT ![t] = None]
        /\ IF validate_config(c) = "ok"
             THEN /\ raised' = [raised EXCEPT ![t] = ""]
                  /\ pc' = [pc EXCEPT ![t] = "upd_lock"]
             ELSE /\ raised' = [raised EXCEPT ![t] = validate_config(c)]
                  /\ pc' = [pc EXCEPT ![t] = "rejected"]
    /\ UNCHANGED <<config_store, config_lock, fresh, ever_updated, OutsideConfig>>

UpdateAcquire(t) ==
    /\ Acquire(t, "upd_lock", "upd_body")
    /\ UNCHANGED <<config_store, new_config, ret, raised, pre_config, fresh,
                 ever_updated, OutsideConfig>>

\* Lines 71-73: replace the store by a copy of the argument and return it.
UpdateBodyFieldwise(t) ==
    /\ pc[t] = "upd_body"
    /\ config_lock = t
    /\ config_store' = [Effective(config_store) EXCEPT
                           !.retrieval_top_k = new_config[t].retrieval_top_k]
    /\ ret' = [ret EXCEPT ![t] = config_store']
    /\ fresh' = FALSE
    /\ ever_updated' = TRUE
    /\ pre_config' = IF Acceptable(new_config[t])
                       THEN [u \in Threads |-> None] ELSE pre_config
    /\ config_lock' = Free
    /\ pc' = [pc EXCEPT ![t] = "updated"]
    /\ UNCHANGED <<new_config, raised, OutsideConfig>>

UpdateBody(t) ==
    /\ pc[t] = "upd_body"
    /\ config_lock = t
    /\ config_store' = new_config[t]
    /\ ret' = [ret EXCEPT ![t] = config_store']
    /\ fresh' = FALSE
    /\ ever_updated' = TRUE
    /\ pre_config' = IF Acceptable(new_config[t])
                       THEN [u \in Threads |-> None] ELSE pre_config
    /\ config_lock' = Free
    /\ pc' = [pc EXCEPT ![t] = "updated"]
    /\ UNCHANGED <<new_config, raised, OutsideConfig>>

\* ---- reset_rag_config ----
ResetCall(t) ==
    /\ pc[t] = "idle"
    /\ pc' = [pc EXCEPT ![t] = "rst_lock"]
    /\ ret' = [ret EXCEPT ![t] = None]
    /\ raised' = [raised EXCEPT ![t] = ""]
    /\ UNCHANGED <<config_store, config_lock, new_config, pre_config, fresh,
                 ever_updated, OutsideConfig>>

ResetAcquire(t) ==
    /\ Acquire(t, "rst_lock", "rst_body")
    /\ UNCHANGED <<config_store, new_config, ret, raised, pre_config, fresh,
                 ever_updated, OutsideConfig>>

\* Lines 86-88.
ResetBodyKeep(t) ==
    /\ pc[t] = "rst_body"
    /\ config_lock = t
    /\ config_store' = config_store
    /\ ret' = [ret EXCEPT ![t] = config_store']
    /\ fresh' = TRUE
    /\ pre_config' = [u \in Threads |-> None]
    /\ config_lock' = Free
    /\ pc' = [pc EXCEPT ![t] = "was_reset"]
    /\ UNCHANGED <<new_config, raised, ever_updated, OutsideConfig>>

ResetBody(t) ==
    /\ pc[t] = "rst_body"
    /\ config_lock = t
    /\ config_store' = DEFAULT_CONFIG
    /\ ret' = [ret EXCEPT ![t] = config_store']
    /\ fresh' = TRUE
    /\ pre_config' = [u \in Threads |-> None]
    /\ config_lock' = Free
    /\ pc' = [pc EXCEPT ![t] = "was_reset"]
    /\ UNCHANGED <<new_config, raised, ever_updated, OutsideConfig>>

\* The caller takes the result (or the exception) and is ready for a new call.
Return(t) ==
    /\ pc[t] \in {"got", "updated", "rejected", "was_reset"}
    /\ pc' = [pc EXCEPT ![t] = "idle"]
    /\ new_config' = [new_config EXCEPT ![t] = None]
    /\ ret' = [ret EXCEPT ![t] = None]
    /\ raised' = [raised EXCEPT ![t] = ""]
    /\ UNCHANGED <<config_store, config_lock, pre_config, fresh, ever_updated, OutsideConfig>>

ConfigStep(t) ==
    \/ GetCall(t)
    \/ GetAcquire(t)
    \/ GetBody(t)
    \/ UpdateCall(t)
    \/ UpdateAcquire(t)
    \/ UpdateBody(t)
    \/ ResetCall(t)
    \/ ResetAcquire(t)
    \/ ResetBody(t)
    \/ Return(t)

(***************************************************************************)
(* POST /query: query_books (main.py) and generate_grounded_answer         *)
(***************************************************************************)

\* Bounds of the query model.
MaxChunks == 2      \* chunk ids 1..MaxChunks exist in the chunk store
MaxReqTopK == 1     \* a request gives top_k in 1..MaxReqTopK, null, or nothing

ChunkIds == 1..MaxChunks

\* An Optional[int] is <<>> for None and <<n>> for n.
NoInt == <<>>
Some(n) == <<n>>

\* schemas.QueryRequest: the top_k field defaults to 10 when the body omits it.
RequestDefaultTopK == 10

QueryRequest(b) == [top_k |-> IF b.has_top_k THEN b.top_k ELSE Some(RequestDefaultTopK)]

\* The bodies a client sends: top_k omitted, top_k: null, top_k: n.
Bodies ==
    {[has_top_k |-> FALSE, top_k |-> NoInt], [has_top_k |-> TRUE, top_k |-> NoInt]}
    \cup {[has_top_k |-> TRUE, top_k |-> Some(n)] : n \in 1..MaxReqTopK}

\* main.py line 248: the top_k argument of hybrid_retrieve.
RetrieveTopK(config, req) ==
    IF req.top_k = NoInt THEN config.retrieval_top_k ELSE req.top_k[1]

\* Duplicate-free sequences of chunk ids of length at most n.
DistinctSeqs(ids, n) ==
    UNION {{s \in [1..k -> ids] : \A i, j \in 1..k : i /= j => s[i] /= s[j]} :
              k \in 0..(IF n < Cardinality(ids) THEN n ELSE Cardinality(ids))}

\* hybrid_retrieve(top_k): the fused ids cut to top_k (crud.py line 725, or
\* LIMIT top_k on the lexical-only path), loaded as distinct Chunk rows.
HybridRetrieveResults(top_k) == DistinctSeqs(ChunkIds, top_k)

\* The three fixed messages of query_books.
RetrievalFallback == "I couldn't find enough relevant information"
GenerationFallback == "I'm not confident enough in my answer"
ErrorFallback == "I encountered an error while processing your query"
NoMessage == "None"

QueryResponse(a, m) == [answer |-> a, fallback_message |-> m]

\* ---- llm_client.py ----
MsgUnavailable == "the LLM service is currently unavailable"
MsgBadJson == "I encountered an error processing your request"
MsgInvalid == "I couldn't generate a properly validated response"
MsgFailed == "I'm currently unable to process your request"

Answer(summary, claims, confidence) ==
    [answer_summary |-> summary, claims |-> claims, confidence_score |-> confidence]

\* _create_fallback_answer (lines 450-462).
create_fallback_answer(message) == Answer(message, <<>>, 0)

ValidationError == [error |-> "ValidationError"]

\* _validate_answer_response (lines 400-448) on the parsed JSON object.  A
\* claim of the object is [complete, numeric, source_chunk_id]: whether it has
\* text, source_chunk_id and page_number, and whether int() accepts its ids.
validate_answer_response(answer_data) ==
    LET summary == IF answer_data.answer_summary = <<>> THEN "No summary provided"
                   ELSE answer_data.answer_summary[1]
        raw == IF answer_data.confidence_score = <<>> THEN 0
               ELSE answer_data.confidence_score[1]
        confidence == IF 0 <= raw /\ raw <= 100 THEN raw ELSE 0
        kept == SelectSeq(answer_data.claims, LAMBDA c : c.complete)
    IN  IF \E i \in 1..Len(kept) : ~kept[i].numeric
          THEN ValidationError
          ELSE Answer(summary,
                      [i \in 1..Len(kept) |-> [source_chunk_id |-> kept[i].source_chunk_id]],
                      confidence)

\* What the generative model does with one call.
JsonResponse(conf, claims) ==
    [kind |-> "json",
     data |-> [answer_summary |-> <<"generated">>, claims |-> claims,
               confidence_score |-> conf]]

GenConfidences == {<<>>, <<0>>, <<50>>, <<69>>, <<70>>, <<90>>, <<100>>, <<150>>}

\* The claims of a generated object: one with text, source_chunk_id and
\* page_number whose ids int() accepts, one whose source_chunk_id is not a
\* number, and one without its required fields.
ValidClaim(id) == [complete |-> TRUE, numeric |-> TRUE, source_chunk_id |-> id]

NonNumericClaim == [complete |-> TRUE, numeric |-> FALSE, source_chunk_id |-> 0]

IncompleteClaim == [complete |-> FALSE, numeric |-> FALSE, source_chunk_id |-> 0]

\* The generator's claims cite a chunk id of its choosing: one that may be in
\* the context, or one that no chunk of the store has.
LLMOutcomes ==
    {[kind |-> "no_client"], [kind |-> "exception"], [kind |-> "bad_json"]}
    \cup {JsonResponse(c, <<>>) : c \in GenConfidences}
    \cup {JsonResponse(<<90>>, <<NonNumericClaim>>)}
    \cup {JsonResponse(<<90>>, <<ValidClaim(id)>>) : id \in {1, MaxChunks + 1}}

\* generate_grounded_answer (lines 289-335): the Answers it can return.  Every
\* failure is turned into a fallback Answer of confidence 0; nothing is raised
\* to the caller.  When validation fails, line 448 builds a pydantic
\* ValidationError from a string: where pydantic accepts that, line 326
\* catches it; where the constructor itself raises TypeError, line 331 does.
generate_grounded_answer(o) ==
    IF o.kind = "no_client" THEN {create_fallback_answer(MsgUnavailable)}
    ELSE IF o.kind = "bad_json" THEN {create_fallback_answer(MsgBadJson)}
    ELSE IF o.kind = "exception" THEN {create_fallback_answer(MsgFailed)}
    ELSE IF validate_answer_response(o.data) = ValidationError
        THEN {create_fallback_answer(MsgInvalid), create_fallback_answer(MsgFailed)}
    ELSE {validate_answer_response(o.data)}

\* ---- the two gates of query_books ----
\* Line 253.
RetrievalGateFailsOffByOne(n, config) == n <= config.min_chunks

RetrievalGateFails(n, config) == n < config.min_chunks

\* Line 272.
GenerationGateFailsStrict(a, config) == a.confidence_score <= config.confidence_threshold

GenerationGateFails(a, config) == a.confidence_score < config.confidence_threshold

\* The variables query_books leaves alone once it holds its configuration.
OutsideQuery == <<config_store, config_lock, new_config, ret, raised, pre_config, fresh,
                  ever_updated, rrfVars, retrieveVars, validateVars,
                   ingestVars, workerVars, chunkVars, sanitizeVars, vectorVars, routerVars>>

q == QueryThread

\* A request arrives; line 241 calls get_rag_config.
QueryCall ==
    /\ pc[q] \in {"idle", "done"}
    /\ \E b \in Bodies : body' = b
    /\ top_k_used' = NoInt
    /\ chunks' = <<>>
    /\ llm_called' = FALSE
    /\ answer' = None
    /\ response' = None
    /\ escaped' = FALSE
    /\ pc' = [pc EXCEPT ![q] = "get_lock"]
    /\ ret' = [ret EXCEPT ![q] = None]
    /\ UNCHANGED <<config_store, config_lock, new_config, raised, pre_config, fresh,
                   ever_updated, rrfVars, retrieveVars, validateVars,
                   ingestVars, workerVars, chunkVars, sanitizeVars, vectorVars, routerVars>>

\* Lines 245-250: hybrid_retrieve returns at most top_k chunks.
QueryRetrieve ==
    /\ pc[q] = "got"
    /\ LET k == RetrieveTopK(ret[q], QueryRequest(body))
       IN  /\ top_k_used' = Some(k)
           /\ \E r \in HybridRetrieveResults(k) : chunks' = r
    /\ pc' = [pc EXCEPT ![q] = "retrieval_gate"]
    /\ UNCHANGED <<body, llm_called, answer, response, escaped, OutsideQuery>>

\* Lines 253-258.
QueryRetrievalGate ==
    /\ pc[q] = "retrieval_gate"
    /\ IF RetrievalGateFails(Len(chunks), ret[q])
         THEN /\ response' = QueryResponse(None, RetrievalFallback)
              /\ pc' = [pc EXCEPT ![q] = "done"]
         ELSE /\ response' = response
              /\ pc' = [pc EXCEPT ![q] = "generate"]
    /\ UNCHANGED <<body, top_k_used, chunks, llm_called, answer, escaped, OutsideQuery>>

\* Lines 261-269: the context is formatted and the generator is called.
QueryGenerate ==
    /\ pc[q] = "generate"
    /\ llm_called' = TRUE
    /\ \E o \in LLMOutcomes : \E a \in generate_grounded_answer(o) : answer' = a
    /\ pc' = [pc EXCEPT ![q] = "generation_gate"]
    /\ UNCHANGED <<body, top_k_used, chunks, response, escaped, OutsideQuery>>

\* Lines 272-279 with the threshold read from the store at the gate.
QueryGenerationGateLive ==
    /\ pc[q] = "generation_gate"
    /\ response' = IF GenerationGateFails(answer, Effective(config_store))
                     THEN QueryResponse(None, GenerationFallback)
                     ELSE QueryResponse(answer, NoMessage)
    /\ pc' = [pc EXCEPT ![q] = "done"]
    /\ UNCHANGED <<body, top_k_used, chunks, llm_called, answer, escaped, OutsideQuery>>

\* Lines 272-279.
QueryGenerationGate ==
    /\ pc[q] = "generation_gate"
    /\ response' = IF GenerationGateFails(answer, ret[q])
                     THEN QueryResponse(None, GenerationFallback)
                     ELSE QueryResponse(answer, NoMessage)
    /\ pc' = [pc EXCEPT ![q] = "done"]
    /\ UNCHANGED <<body, top_k_used, chunks, llm_called, answer, escaped, OutsideQuery>>

\* Lines 281-284: an exception out of hybrid_retrieve or out of the generator
\* call is caught and answered with the error message.
QueryExceptionPropagates ==
    /\ pc[q] \in {"got", "generate"}
    /\ llm_called' = (pc[q] = "generate")
    /\ escaped' = TRUE
    /\ response' = response
    /\ pc' = [pc EXCEPT ![q] = "done"]
    /\ UNCHANGED <<body, top_k_used, chunks, answer, OutsideQuery>>

QueryException ==
    /\ pc[q] \in {"got", "generate"}
    /\ llm_called' = (pc[q] = "generate")
    /\ escaped' = TRUE
    /\ response' = QueryResponse(None, ErrorFallback)
    /\ pc' = [pc EXCEPT ![q] = "done"]
    /\ UNCHANGED <<body, top_k_used, chunks, answer, OutsideQuery>>

QueryStep ==
    \/ QueryCall
    \/ GetAcquire(q)
    \/ GetBody(q)
    \/ QueryRetrieve
    \/ QueryRetrievalGate
    \/ QueryGenerate
    \/ QueryGenerationGate
    \/ QueryException

QueryInit ==
    /\ body = [has_top_k |-> FALSE, top_k |-> NoInt]
    /\ top_k_used = NoInt
    /\ chunks = <<>>
    /\ llm_called = FALSE
    /\ answer = None
    /\ response = None
    /\ escaped = FALSE

(***************************************************************************)
(* reciprocal_rank_fusion (crud.py)                                        *)
(***************************************************************************)

\* Bounds of the fusion model.
MaxRrfId == 3       \* chunk ids 1..MaxRrfId occur in the result lists
MaxRrfLen == 2      \* each result list has at most MaxRrfLen entries

\* The default of the parameter k (line 642).
RrfK == 60

RrfIds == 1..MaxRrfId

\* A result list is a sequence of (chunk_id, score) tuples.  Both searches
\* order their rows by score (ORDER BY bm25 / ORDER BY distance): the score
\* of an entry is taken to be its position, so scores rise along the list.
WithScores(ids) == [i \in 1..Len(ids) |-> <<ids[i], i>>]

ResultLists ==
    UNION {{WithScores(ids) : ids \in [1..n -> RrfIds]} : n \in 0..MaxRrfLen}

IdsOf(results) == {results[i][1] : i \in 1..Len(results)}

\* Lines 656-657: a dict comprehension keeps, for each chunk id, the score of
\* its last entry.
ScoreDict(results, id) ==
    LET last == CHOOSE i \in 1..Len(results) :
                    /\ results[i][1] = id
                    /\ \A j \in (i + 1)..Len(results) : results[j][1] /= id
    IN  results[last][2]

\* list.index(x): the first position holding x, 0-based.
Index(results, x) ==
    (CHOOSE i \in 1..Len(results) :
        /\ results[i] = x
        /\ \A j \in 1..(i - 1) : results[j] /= x) - 1

\* Lines 669 and 674: the 1-based rank of a chunk id in a list.
RankZeroBased(results, id) == Index(results, <<id, ScoreDict(results, id)>>)

Rank(results, id) == Index(results, <<id, ScoreDict(results, id)>>) + 1

\* Scores are sums of at most two terms 1/(k + rank); they are held exactly,
\* as <<numerator, denominator>>.  Float addition is commutative and the
\* distinct sums that occur within the bounds lie far apart, so the floats of
\* the program compare as these fractions do.
RatZero == <<0, 1>>
RatAdd(a, b) == <<a[1] * b[2] + b[1] * a[2], a[2] * b[2]>>
RatLess(a, b) == a[1] * b[2] < b[1] * a[2]
RatEq(a, b) == a[1] * b[2] = b[1] * a[2]
Reciprocal(n) == <<1, n>>

\* Lines 664-677: the rrf_score of one chunk id.
RrfScoreBest(lex, vec, k, id) ==
    LET l == IF id \in IdsOf(lex) THEN Reciprocal(k + Rank(lex, id)) ELSE RatZero
        v == IF id \in IdsOf(vec) THEN Reciprocal(k + Rank(vec, id)) ELSE RatZero
    IN  IF RatLess(l, v) THEN v ELSE l

RrfScore(lex, vec, k, id) ==
    LET l == IF id \in IdsOf(lex) THEN Reciprocal(k + Rank(lex, id)) ELSE RatZero
        v == IF id \in IdsOf(vec) THEN Reciprocal(k + Rank(vec, id)) ELSE RatZero
    IN  RatAdd(l, v)

\* The orders in which a set of ids can be iterated: Python fixes no order
\* for a set, and the dict of scores is filled in that order.
IterationOrders(ids) ==
    {o \in [1..Cardinality(ids) -> ids] : \A i, j \in 1..Cardinality(ids) :
                                              i /= j => o[i] /= o[j]}

PositionIn(order, id) == CHOOSE i \in 1..Len(order) : order[i] = id

\* Line 680: sorted(items, key=score, reverse=True) is stable: entries of
\* equal score keep the order in which the dict holds them.  `order` is that
\* order; the entries are the (chunk_id, rrf_score) items of the dict.
SortedDescending(order, lex, vec, k) ==
    LET score(id) == RrfScore(lex, vec, k, id)
        ids == {order[i] : i \in 1..Len(order)}
        before(x, y) == \/ RatLess(score(y), score(x))
                        \/ /\ RatEq(score(x), score(y))
                           /\ PositionIn(order, x) < PositionIn(order, y)
        place(x) == 1 + Cardinality({y \in ids : before(y, x)})
    IN  [p \in 1..Len(order) |->
            LET x == CHOOSE y \in ids : place(y) = p
            IN  <<x, score(x)>>]

\* reciprocal_rank_fusion with the set of ids iterated in the given order.
\* (The except clause of lines 685-688 is not reached for lists of tuples.)
reciprocal_rank_fusion(lex, vec, k, order) == SortedDescending(order, lex, vec, k)

OutsideRrf == <<configVars, queryVars, retrieveVars, validateVars, ingestVars, workerVars,
                chunkVars, sanitizeVars, vectorVars, routerVars>>

Fuse ==
    /\ rrf_pc = "input"
    /\ \E order \in IterationOrders(IdsOf(lexical_results) \cup IdsOf(vector_results)) :
          fused_results' = reciprocal_rank_fusion(lexical_results, vector_results,
                                                  RrfK, order)
    /\ rrf_pc' = "fused"
    /\ UNCHANGED <<lexical_results, vector_results, OutsideRrf>>

RrfInit ==
    /\ lexical_results \in ResultLists
    /\ vector_results \in ResultLists
    /\ fused_results = <<>>
    /\ rrf_pc = "input"

RrfIdle ==
    /\ lexical_results = <<>>
    /\ vector_results = <<>>
    /\ fused_results = <<>>
    /\ rrf_pc = "input"

(***************************************************************************)
(* hybrid_retrieve, lexical_search and vector_search (crud.py)             *)
(***************************************************************************)

\* Bounds of the retrieval model.
MaxHrId == 3        \* chunk ids 1..MaxHrId occur in the indices
MaxHrLen == 2       \* an index ranks at most MaxHrLen chunks for the query
MaxHrTopK == 2      \* hybrid_retrieve is called with top_k in 1..MaxHrTopK

HrIds == 1..MaxHrId

\* What an index holds for the query: its matches in rank order, each chunk
\* once, or a failure (the search raises inside its try block).
IndexOk(ranked) == [ok |-> TRUE, ranked |-> ranked]

IndexFailure == [ok |-> FALSE, ranked |-> <<>>]

IndexStates == {IndexFailure} \cup {IndexOk(r) : r \in DistinctSeqs(HrIds, MaxHrLen)}

\* The outcomes of generate_embeddings_for_chunks for the one-element list of
\* line 707: a list with the embedding, an exception (parser.py re-raises
\* every failure at line 453), or a list without entries (the model yields no
\* vector).
EmbeddingOutcomes == {"ok", "raises", "empty"}

\* s[:n]
Take(s, n) == SubSeq(s, 1, IF n < Len(s) THEN n ELSE Len(s))

IdSeq(results) == [i \in 1..Len(results) |-> results[i][1]]

\* The book_id column of the chunks table: the chunks of odd id are of book
\* 1, those of even id of book 2.
Books == {1, 2}

ChunkBook(id) == IF id % 2 = 1 THEN 1 ELSE 2

\* WHERE c.book_id = ? (lines 564-566) and chunk_id in book_chunk_ids (lines
\* 619-622): the ranked ids that pass the scope, in their order.
InScope(ranked, book_id, rows) ==
    IF book_id = NoInt THEN ranked
    ELSE SelectSeq(ranked, LAMBDA id : id \in rows /\ ChunkBook(id) = book_id[1])

\* lexical_search that ignores its book_id.
lexical_search_unscoped(index, limit, book_id, rows) ==
    IF index.ok THEN WithScores(Take(index.ranked, limit)) ELSE <<>>

\* lexical_search (lines 555-583): the matches joined with their chunks rows,
\* the book scope, ORDER BY bm25 LIMIT ?, and [] when the query raises.
lexical_search(index, limit, book_id, rows) ==
    IF index.ok THEN WithScores(Take(InScope(index.ranked, book_id, rows), limit))
    ELSE <<>>

\* VectorStore.search_similar (vector_store.py lines 128-153): ORDER BY
\* distance LIMIT ?, and [] when the index raises.
search_similar(index, limit) ==
    IF index.ok THEN WithScores(Take(index.ranked, limit)) ELSE <<>>

\* vector_search with the scope applied inside the index query, before its
\* LIMIT.
vector_search_backfilled(index, limit, book_id, rows) ==
    IF index.ok THEN WithScores(Take(InScope(index.ranked, book_id, rows), limit))
    ELSE <<>>

\* vector_search (lines 598-637): the 2 * limit nearest of the index, those
\* of the book when a scope is given, the first limit of them.
vector_search(index, limit, book_id, rows) ==
    LET all_results == search_similar(index, limit * 2)
        filtered_results ==
            SelectSeq(all_results,
                      LAMBDA r : r[1] \in rows /\ ChunkBook(r[1]) = book_id[1])
    IN  IF book_id = NoInt THEN Take(all_results, limit) ELSE Take(filtered_results, limit)

\* Line 725: fused_results[:top_k].
CutTopKMissing(fused, k) == fused

CutTopK(fused, k) == Take(fused, k)

\* Lines 728-741: the rows of the chunks table whose id is among chunk_ids,
\* sorted into the order of chunk_ids.
LoadChunks(chunk_ids, rows) == SelectSeq(chunk_ids, LAMBDA id : id \in rows)

OutsideRetrieve == <<configVars, queryVars, rrfVars, validateVars, ingestVars,
                     workerVars, chunkVars, sanitizeVars, vectorVars, routerVars>>

\* Line 707 raises; the except clause of lines 743-745 returns [].
HybridEmbeddingRaises ==
    /\ hr_pc = "input"
    /\ embedding_outcome = "raises"
    /\ retrieved' = <<>>
    /\ hr_raised' = FALSE
    /\ hr_pc' = "done"
    /\ UNCHANGED <<embedding_outcome, lexical_index, vector_index, hr_top_k, hr_book_id,
                   chunk_rows, OutsideRetrieve>>

\* Lines 709-713: query_chunks is empty, lexical search alone with limit top_k.
HybridLexicalOnly ==
    /\ hr_pc = "input"
    /\ embedding_outcome = "empty"
    /\ retrieved' = LoadChunks(IdSeq(lexical_search(lexical_index, hr_top_k, hr_book_id,
                                                    chunk_rows)),
                               chunk_rows)
    /\ hr_raised' = FALSE
    /\ hr_pc' = "done"
    /\ UNCHANGED <<embedding_outcome, lexical_index, vector_index, hr_top_k, hr_book_id,
                   chunk_rows, OutsideRetrieve>>

\* Lines 714-725: both searches with limit 2 * top_k, fusion, the first top_k.
HybridFused ==
    /\ hr_pc = "input"
    /\ embedding_outcome = "ok"
    /\ LET lex == lexical_search(lexical_index, hr_top_k * 2, hr_book_id, chunk_rows)
           vec == vector_search(vector_index, hr_top_k * 2, hr_book_id, chunk_rows)
       IN  \E order \in IterationOrders(IdsOf(lex) \cup IdsOf(vec)) :
              retrieved' =
                  LoadChunks(IdSeq(CutTopK(reciprocal_rank_fusion(lex, vec, RrfK, order),
                                           hr_top_k)),
                             chunk_rows)
    /\ hr_raised' = FALSE
    /\ hr_pc' = "done"
    /\ UNCHANGED <<embedding_outcome, lexical_index, vector_index, hr_top_k, hr_book_id,
                   chunk_rows, OutsideRetrieve>>

\* The full-text index is joined with the chunks table (line 560), so every
\* chunk it ranks has a row; the vector index is a table of its own and may
\* hold the id of a chunk without a row.
RetrieveInit ==
    /\ embedding_outcome \in EmbeddingOutcomes
    /\ lexical_index \in IndexStates
    /\ vector_index \in IndexStates
    /\ hr_top_k \in 1..MaxHrTopK
    /\ hr_book_id = NoInt
    /\ chunk_rows \in {HrIds, HrIds \ {MaxHrId}}
    /\ \A i \in 1..Len(lexical_index.ranked) : lexical_index.ranked[i] \in chunk_rows
    /\ retrieved = <<>>
    /\ hr_raised = FALSE
    /\ hr_pc = "input"

\* The same states, for a call with a book scope.
ScopedRetrieveInit ==
    /\ embedding_outcome \in EmbeddingOutcomes
    /\ lexical_index \in IndexStates
    /\ vector_index \in IndexStates
    /\ hr_top_k \in 1..MaxHrTopK
    /\ hr_book_id \in {Some(b) : b \in Books}
    /\ chunk_rows \in {HrIds, HrIds \ {MaxHrId}}
    /\ \A i \in 1..Len(lexical_index.ranked) : lexical_index.ranked[i] \in chunk_rows
    /\ retrieved = <<>>
    /\ hr_raised = FALSE
    /\ hr_pc = "input"

RetrieveIdle ==
    /\ embedding_outcome = "ok"
    /\ lexical_index = IndexOk(<<>>)
    /\ vector_index = IndexOk(<<>>)
    /\ hr_top_k = 1
    /\ hr_book_id = NoInt
    /\ chunk_rows = {}
    /\ retrieved = <<>>
    /\ hr_raised = FALSE
    /\ hr_pc = "input"

(***************************************************************************)
(* vector_search called on its own (crud.py)                               *)
(***************************************************************************)

\* Bounds of the vector search model.
MaxVsId == 4        \* chunk ids 1..MaxVsId occur in the vector index
MaxVsLen == 3       \* the index ranks at most MaxVsLen chunks for the query
MaxVsLimit == 1     \* vector_search is called with limit in 1..MaxVsLimit

VsIds == 1..MaxVsId

VsIndexStates == {IndexFailure} \cup {IndexOk(r) : r \in DistinctSeqs(VsIds, MaxVsLen)}

OutsideVector == <<configVars, queryVars, rrfVars, retrieveVars, validateVars, ingestVars,
                   workerVars, chunkVars, sanitizeVars, routerVars>>

\* Lines 598-637: a failure of the SELECT of lines 614-617 is caught at line
\* 635 and answered with [].
VectorSearch ==
    /\ vs_pc = "input"
    /\ vs_result' = IF vs_book_id /= NoInt /\ ~vs_lookup_ok THEN <<>>
                    ELSE vector_search(vs_index, vs_limit, vs_book_id, vs_rows)
    /\ vs_pc' = "done"
    /\ UNCHANGED <<vs_index, vs_limit, vs_book_id, vs_rows, vs_lookup_ok, OutsideVector>>

\* The vector index is a table of its own and may hold the id of a chunk
\* without a row.
VectorInit ==
    /\ vs_index \in VsIndexStates
    /\ vs_limit \in 1..MaxVsLimit
    /\ vs_book_id \in {NoInt} \cup {Some(b) : b \in Books}
    /\ vs_rows \in {VsIds, VsIds \ {MaxVsId}}
    /\ vs_lookup_ok \in BOOLEAN
    /\ vs_result = <<>>
    /\ vs_pc = "input"

VectorIdle ==
    /\ vs_index = IndexOk(<<>>)
    /\ vs_limit = 1
    /\ vs_book_id = NoInt
    /\ vs_rows = {}
    /\ vs_lookup_ok = TRUE
    /\ vs_result = <<>>
    /\ vs_pc = "input"

(***************************************************************************)
(* LLMClient._validate_answer_response on its own (llm_client.py)          *)
(***************************************************************************)

\* Bound of the validation model.
MaxClaims == 2      \* a generated object holds at most MaxClaims claims

ClaimInputs == {ValidClaim(1), ValidClaim(2), NonNumericClaim, IncompleteClaim}

AnswerDataInputs ==
    {[answer_summary |-> sm, claims |-> cl, confidence_score |-> cf] :
        sm \in {<<>>, <<"generated">>},
        cl \in UNION {[1..n -> ClaimInputs] : n \in 0..MaxClaims},
        cf \in GenConfidences}

OutsideValidate == <<configVars, queryVars, rrfVars, retrieveVars, ingestVars,
                     workerVars, chunkVars, sanitizeVars, vectorVars, routerVars>>

\* One call of _validate_answer_response; the exception of line 448 is held
\* as the value ValidationError.
Validate ==
    /\ validate_pc = "input"
    /\ validated' = validate_answer_response(raw_answer)
    /\ validate_pc' = "done"
    /\ UNCHANGED <<raw_answer, OutsideValidate>>

ValidateInit ==
    /\ raw_answer \in AnswerDataInputs
    /\ validated = None
    /\ validate_pc = "input"

ValidateIdle ==
    /\ raw_answer = [answer_summary |-> <<>>, claims |-> <<>>, confidence_score |-> <<>>]
    /\ validated = None
    /\ validate_pc = "input"

(***************************************************************************)
(* Ingestion: create_chunks_and_embeddings and                             *)
(* process_book_chunks_and_embeddings (crud.py), store_embedding           *)
(* (vector_store.py)                                                       *)
(***************************************************************************)

\* Bounds of the ingestion model.
MaxPasses == 2       \* ingestion passes started for the book
MaxPassChunks == 2   \* chunks the chunker produces in one pass

\* The one book whose file is ingested, again and again.
IngestedBooks == {1}

\* The chunker numbers the chunks of a pass 0, 1, ... (parser.py line 325).
ChunkData(n) == [i \in 1..n |-> [chunk_order |-> i - 1]]

\* chunks.id is INTEGER PRIMARY KEY: a new row gets the largest id in use in
\* the table, rows of the open transaction included, plus one.
NextChunkId ==
    LET used == {r.id : r \in chunks_table} \cup {db_session[i].id : i \in 1..Len(db_session)}
    IN  IF used = {} THEN 1 ELSE (CHOOSE m \in used : \A u \in used : u <= m) + 1

OutsideIngest == <<configVars, queryVars, rrfVars, retrieveVars, validateVars,
                   workerVars, chunkVars, sanitizeVars, vectorVars, routerVars>>

\* create_chunks_and_embeddings is called; lines 411-413 return True for an
\* empty list.
IngestCall ==
    /\ ingest_pc = "idle"
    /\ passes < MaxPasses
    /\ passes' = passes + 1
    /\ \E n \in 0..MaxPassChunks :
         /\ chunks_with_embeddings' = ChunkData(n)
         /\ IF n = 0
              THEN /\ ingest_ret' = <<TRUE>>
                   /\ ingest_pc' = "returned"
              ELSE /\ ingest_ret' = <<>>
                   /\ ingest_pc' = "loop"
    /\ loop_i' = 1
    /\ UNCHANGED <<chunks_table, db_session, chunk_embeddings, latest_pass, OutsideIngest>>

\* process_book_chunks_and_embeddings (lines 517-539): the chunk-and-embed
\* pipeline raises or yields nothing and the pass returns False, or its
\* chunks are handed to create_chunks_and_embeddings.
ProcessCall ==
    /\ ingest_pc = "idle"
    /\ passes < MaxPasses
    /\ passes' = passes + 1
    /\ \E n \in 0..MaxPassChunks :
         /\ chunks_with_embeddings' = ChunkData(n)
         /\ IF n = 0
              THEN /\ ingest_ret' = <<FALSE>>
                   /\ ingest_pc' = "returned"
              ELSE /\ ingest_ret' = <<>>
                   /\ ingest_pc' = "loop"
    /\ loop_i' = 1
    /\ UNCHANGED <<chunks_table, db_session, chunk_embeddings, latest_pass, OutsideIngest>>

\* Lines 418-431, one iteration: the row is added and flushed, then its
\* embedding is written by store_embedding on a connection of its own, which
\* commits at once (vector_store.py line 108) or fails and returns False; the
\* loop goes on either way.
IngestStoreChunk ==
    /\ ingest_pc = "loop"
    /\ \E book \in IngestedBooks : \E embedding_success \in BOOLEAN :
         LET chunk == [id          |-> NextChunkId,
                       book_id     |-> book,
                       chunk_order |-> chunks_with_embeddings[loop_i].chunk_order,
                       pass        |-> passes]
         IN  /\ db_session' = Append(db_session, chunk)
             /\ chunk_embeddings' = IF embedding_success
                                      THEN chunk_embeddings \cup {chunk.id}
                                      ELSE chunk_embeddings
    /\ loop_i' = loop_i + 1
    /\ ingest_pc' = IF loop_i = Len(chunks_with_embeddings) THEN "commit" ELSE "loop"
    /\ UNCHANGED <<chunks_table, chunks_with_embeddings, ingest_ret, passes, latest_pass,
                   OutsideIngest>>

\* Line 433: the transaction commits and its rows become visible.
IngestCommit ==
    /\ ingest_pc = "commit"
    /\ chunks_table' = chunks_table \cup {db_session[i] : i \in 1..Len(db_session)}
    /\ db_session' = <<>>
    /\ ingest_ret' = <<TRUE>>
    /\ latest_pass' = passes
    /\ ingest_pc' = "returned"
    /\ UNCHANGED <<chunk_embeddings, chunks_with_embeddings, loop_i, passes, OutsideIngest>>

\* Lines 437-440: db.flush() or db.commit() raises; the transaction is rolled
\* back and the pass returns False.  The vector tables are not part of it.
IngestRollback ==
    /\ ingest_pc \in {"loop", "commit"}
    /\ db_session' = <<>>
    /\ ingest_ret' = <<FALSE>>
    /\ ingest_pc' = "returned"
    /\ UNCHANGED <<chunks_table, chunk_embeddings, chunks_with_embeddings, loop_i, passes,
                   latest_pass, OutsideIngest>>

\* The caller takes the result.
IngestReturn ==
    /\ ingest_pc = "returned"
    /\ ingest_ret' = <<>>
    /\ chunks_with_embeddings' = <<>>
    /\ loop_i' = 1
    /\ ingest_pc' = "idle"
    /\ UNCHANGED <<chunks_table, db_session, chunk_embeddings, passes, latest_pass,
                   OutsideIngest>>

IngestInit ==
    /\ chunks_table = {}
    /\ db_session = <<>>
    /\ chunk_embeddings = {}
    /\ chunks_with_embeddings = <<>>
    /\ loop_i = 1
    /\ ingest_ret = <<>>
    /\ ingest_pc = "idle"
    /\ passes = 0
    /\ latest_pass = 0

(***************************************************************************)
(* The ingestion job: process_book_file_arq and move_to_dlq (worker.py)    *)
(***************************************************************************)

\* Bound of the worker model.
MaxTries == 4       \* WorkerSettings.max_tries is configured in 1..MaxTries

\* Line 264: ctx.get("max_tries", 3).
CtxDefaultMaxTries == 3

\* The books whose ingestion jobs are queued.
JobBooks == {1, 2}

\* The ctx of a job is what the queue hands over: the Redis connection and
\* the attempt's job_try.  The Worker of lines 373-381 is built without a
\* ctx of its own and nothing in the repository stores max_tries in it, so
\* the lookup of line 264 gives its default.
CtxMaxTries == CtxDefaultMaxTries

\* move_to_dlq (lines 287-298): the entry pushed to the list.
DlqEntry(book_id, try) == [book_id |-> book_id, retry_count |-> try]

OutsideWorker == <<configVars, queryVars, rrfVars, retrieveVars, validateVars, ingestVars,
                   chunkVars, sanitizeVars, vectorVars, routerVars>>

\* The queue starts the next attempt of the job and counts it.
JobStart(b) ==
    /\ job_state[b] = "queued"
    /\ job_try' = [job_try EXCEPT ![b] = @ + 1]
    /\ job_state' = [job_state EXCEPT ![b] = "running"]
    /\ UNCHANGED <<worker_max_tries, dlq, OutsideWorker>>

\* Lines 119-255: every step succeeds and the success message is returned.
JobSucceeds(b) ==
    /\ job_state[b] = "running"
    /\ job_state' = [job_state EXCEPT ![b] = "complete"]
    /\ UNCHANGED <<worker_max_tries, job_try, dlq, OutsideWorker>>

\* Lines 258-272: a step raised.  On the attempt the handler takes for the
\* final one the job is moved to the dead-letter list; the error is re-raised
\* in every case.
JobFails(b) ==
    /\ job_state[b] = "running"
    /\ dlq' = IF job_try[b] >= CtxMaxTries
                THEN Append(dlq, DlqEntry(b, job_try[b]))
                ELSE dlq
    /\ job_state' = [job_state EXCEPT ![b] = "raised"]
    /\ UNCHANGED <<worker_max_tries, job_try, OutsideWorker>>

\* The queue's contract (spec 6): a job whose attempt raised is run again
\* until it has been tried max_tries times, and is then given up.
QueueRetry(b) ==
    /\ job_state[b] = "raised"
    /\ job_try[b] < worker_max_tries
    /\ job_state' = [job_state EXCEPT ![b] = "queued"]
    /\ UNCHANGED <<worker_max_tries, job_try, dlq, OutsideWorker>>

QueueGiveUp(b) ==
    /\ job_state[b] = "raised"
    /\ job_try[b] >= worker_max_tries
    /\ job_state' = [job_state EXCEPT ![b] = "abandoned"]
    /\ UNCHANGED <<worker_max_tries, job_try, dlq, OutsideWorker>>

WorkerStep(b) ==
    \/ JobStart(b)
    \/ JobSucceeds(b)
    \/ JobFails(b)
    \/ QueueRetry(b)
    \/ QueueGiveUp(b)

WorkerInit ==
    /\ worker_max_tries \in 1..MaxTries
    /\ job_try = [b \in JobBooks |-> 0]
    /\ job_state = [b \in JobBooks |-> "queued"]
    /\ dlq = <<>>

WorkerIdle ==
    /\ worker_max_tries = CtxDefaultMaxTries
    /\ job_try = [b \in JobBooks |-> 0]
    /\ job_state = [b \in JobBooks |-> "queued"]
    /\ dlq = <<>>

(***************************************************************************)
(* _perform_semantic_chunking (parser.py)                                  *)
(***************************************************************************)

\* Bound of the chunking model.
MaxParagraphs == 3   \* a text has at most MaxParagraphs pieces between blank lines

\* The defaults of the parameters (line 319) and the word counts of the
\* overlap (lines 359-360).
DefaultChunkSize == 1000
DefaultOverlap == 200
OverlapMinWords == 10
OverlapWords == 50

\* A text is held by its lengths: a run is n words of wlen characters each,
\* and para is the paragraph the words come from (0 before the split).  The
\* words of a paragraph, and of an overlap, are one character apart.
Run(n, w) == [n |-> n, wlen |-> w, para |-> 0]

RECURSIVE RunWords(_)
RunWords(runs) == IF runs = <<>> THEN 0 ELSE runs[1].n + RunWords(Tail(runs))

RECURSIVE RunChars(_)
RunChars(runs) ==
    IF runs = <<>> THEN 0 ELSE runs[1].n * runs[1].wlen + RunChars(Tail(runs))

\* len(" ".join(words))
JoinedLen(runs) == IF runs = <<>> THEN 0 ELSE RunChars(runs) + RunWords(runs) - 1

\* A string: its len() and its split().
EmptyString == [len |-> 0, runs |-> <<>>]

Str(runs) == [len |-> JoinedLen(runs), runs |-> runs]

\* a + sep + b, for a separator of sep whitespace characters.
Concat(a, sep, b) == [len |-> a.len + sep + b.len, runs |-> a.runs \o b.runs]

\* The whole text taken in place of its last n words.
LastWordsWhole(runs, n) == runs

\* words[-n:]
RECURSIVE LastWords(_, _)
LastWords(runs, n) ==
    IF runs = <<>> \/ n <= 0 THEN <<>>
    ELSE LET last == runs[Len(runs)]
         IN  IF last.n >= n THEN <<[last EXCEPT !.n = n]>>
             ELSE LastWords(SubSeq(runs, 1, Len(runs) - 1), n - last.n) \o <<last>>

\* A piece of the text between two blank lines: its words, and the number
\* of its [PAGE n] marker when it has one.
Piece(runs, page) == [runs |-> runs, page |-> page]

\* "[PAGE n]" followed by a line break: two words of 5 and 2 characters.
PageMarker == <<Run(1, 5), Run(1, 2)>>

TextPieces ==
    {Piece(<<>>, NoInt),                              \* white space only
     Piece(<<Run(1, 5)>>, NoInt),                     \* 5 characters
     Piece(PageMarker \o <<Run(1, 5)>>, Some(2)),     \* 14 characters, page 2
     Piece(<<Run(60, 4)>>, NoInt),                    \* 299 characters, 60 words
     Piece(<<Run(100, 4)>>, NoInt),                   \* 499 characters, 100 words
     Piece(<<Run(5, 99)>>, NoInt),                    \* 499 characters, 5 words
     Piece(<<Run(1, 999)>>, NoInt),                   \* 999 characters
     Piece(<<Run(1, 1200)>>, NoInt)}                  \* longer than the budget

Texts == UNION {[1..n -> TextPieces] : n \in 0..MaxParagraphs}

ChunkSizes == {500, DefaultChunkSize}

\* Line 333: the stripped pieces that are not blank, each tagged with its
\* place among them.
SplitParagraphs(t) ==
    LET kept == SelectSeq(t, LAMBDA piece : piece.runs /= <<>>)
    IN  [i \in 1..Len(kept) |->
            [text |-> Str([j \in 1..Len(kept[i].runs) |->
                              [kept[i].runs[j] EXCEPT !.para = i]]),
             page |-> kept[i].page]]

\* _extract_page_number_from_paragraph and the test of line 343: a marker
\* with number 0 is falsy and leaves the page as it is.
PageAfter(page, paragraph) ==
    IF paragraph.page /= NoInt /\ paragraph.page[1] /= 0 THEN paragraph.page[1] ELSE page

\* Line 347: len(current_chunk + paragraph) > chunk_size.
ExceedsBudgetOfOverlap(current, paragraph, size) ==
    current.len + paragraph.len > DefaultOverlap

ExceedsBudget(current, paragraph, size) == current.len + paragraph.len > size

\* Lines 349-353 and 374-378.
ChunkDict(chunk_text, page, order) ==
    [chunk_text |-> chunk_text, page_number |-> page, chunk_order |-> order]

OutsideChunk == <<configVars, queryVars, rrfVars, retrieveVars, validateVars, ingestVars,
                  workerVars, sanitizeVars, vectorVars, routerVars>>

\* Lines 333-338.
ChunkSplit ==
    /\ chunk_pc = "input"
    /\ paragraphs' = SplitParagraphs(text)
    /\ chunk_pc' = "loop"
    /\ UNCHANGED <<text, chunk_size, para_i, current_chunk, current_page, chunk_order,
                   sem_chunks, OutsideChunk>>

\* Lines 340-370: one iteration of the loop.
ChunkParagraph ==
    /\ chunk_pc = "loop"
    /\ para_i <= Len(paragraphs)
    /\ LET paragraph == paragraphs[para_i]
           page == PageAfter(current_page, paragraph)
       IN  /\ current_page' = page
           /\ IF ExceedsBudget(current_chunk, paragraph.text, chunk_size)
                 /\ current_chunk /= EmptyString
                THEN /\ sem_chunks' = Append(sem_chunks,
                                             ChunkDict(current_chunk, page, chunk_order))
                     /\ chunk_order' = chunk_order + 1
                     /\ current_chunk' =
                            IF RunWords(current_chunk.runs) > OverlapMinWords
                              THEN Concat(Str(LastWords(current_chunk.runs, OverlapWords)),
                                          1, paragraph.text)
                              ELSE paragraph.text
                ELSE /\ sem_chunks' = sem_chunks
                     /\ chunk_order' = chunk_order
                     /\ current_chunk' =
                            IF current_chunk /= EmptyString
                              THEN Concat(current_chunk, 2, paragraph.text)
                              ELSE paragraph.text
    /\ para_i' = para_i + 1
    /\ UNCHANGED <<text, chunk_size, paragraphs, chunk_pc, OutsideChunk>>

\* Lines 372-381: the final chunk, and the return.
ChunkFinish ==
    /\ chunk_pc = "loop"
    /\ para_i > Len(paragraphs)
    /\ sem_chunks' = IF current_chunk /= EmptyString
                       THEN Append(sem_chunks,
                                   ChunkDict(current_chunk, current_page, chunk_order))
                       ELSE sem_chunks
    /\ chunk_pc' = "done"
    /\ UNCHANGED <<text, chunk_size, paragraphs, para_i, current_chunk, current_page,
                   chunk_order, OutsideChunk>>

ChunkInit ==
    /\ text \in Texts
    /\ chunk_size \in ChunkSizes
    /\ paragraphs = <<>>
    /\ para_i = 1
    /\ current_chunk = EmptyString
    /\ current_page = 1
    /\ chunk_order = 0
    /\ sem_chunks = <<>>
    /\ chunk_pc = "input"

ChunkIdle ==
    /\ text = <<>>
    /\ chunk_size = DefaultChunkSize
    /\ paragraphs = <<>>
    /\ para_i = 1
    /\ current_chunk = EmptyString
    /\ current_page = 1
    /\ chunk_order = 0
    /\ sem_chunks = <<>>
    /\ chunk_pc = "input"

(***************************************************************************)
(* TextSanitizer.sanitize_text_for_llm (sanitizer.py)                      *)
(***************************************************************************)

\* Bound of the sanitizer model.
MaxTokens == 5   \* a text has at most MaxTokens tokens

\* Line 356: the minimum length of a sanitized text.
MinContentLength == 10

\* A text is a sequence of tokens.  The input alphabet: ordinary content,
\* the word of a role header, a colon, a space, a line break and the
\* zero-width space U+200B.
Content == "Normal content."
SystemWord == "System"
Colon == ":"
Space == " "
Newline == "LF"
ZeroWidth == "U+200B"

\* The placeholders of lines 291 and 358.
InstructionRemoved == "[INSTRUCTION_REMOVED]"
ContentTooShort == "[CONTENT_TOO_SHORT]"

InputTokens == {Content, SystemWord, Colon, Space, Newline, ZeroWidth}

SanTexts == UNION {[1..n -> InputTokens] : n \in 0..MaxTokens}

\* len() of a token and of a text.
TokenLen(tok) ==
    CASE tok = Content -> 15
      [] tok = SystemWord -> 6
      [] tok = InstructionRemoved -> 21
      [] tok = ContentTooShort -> 19
      [] OTHER -> 1

RECURSIVE TextLen(_)
TextLen(t) == IF t = <<>> THEN 0 ELSE TokenLen(Head(t)) + TextLen(Tail(t))

\* \s of the patterns: U+200B is not white space.
Whitespace == {Space, Newline}

\* [A-Z] under (?i): the token starts with a letter.
StartsWithLetter(tok) == tok \in {Content, SystemWord}

\* The categories a text over these tokens can be counted under: the other
\* patterns of lines 43-187, 327 and 338 need a character that no token has
\* (# * ` ~ < = / digits), or a word that no token holds.
Categories ==
    {"system_override", "dangerous_command", "excessive_newlines", "excessive_spaces",
     "zero_width_chars", "insufficient_content"}

NoChanges == [c \in Categories |-> 0]

\* Lines 288-290: changes[pattern_name] = changes.get(pattern_name, 0) + len(matches),
\* when there are matches.  A key of the dictionary is a category of count > 0.
Record(changes, name, n) == IF n > 0 THEN [changes EXCEPT ![name] = @ + n] ELSE changes

\* The index after the white space tokens that start at index i.
RECURSIVE SkipWhitespace(_, _)
SkipWhitespace(t, i) ==
    IF i <= Len(t) /\ t[i] \in Whitespace THEN SkipWhitespace(t, i + 1) ELSE i

\* Line 72, the lookahead (?=\n\n|\n[A-Z]|\Z) at index n.
OverrideLookahead(t, n) ==
    \/ n > Len(t)
    \/ /\ n < Len(t)
       /\ t[n] = Newline
       /\ t[n + 1] = Newline \/ StartsWithLetter(t[n + 1])

\* Line 72, .*? from index n: the index of the last token of the match, or
\* 0 when a line break that does not satisfy the lookahead stops it.
RECURSIVE OverrideBodyEnd(_, _)
OverrideBodyEnd(t, n) ==
    IF OverrideLookahead(t, n) THEN n - 1
    ELSE IF t[n] = Newline THEN 0
    ELSE OverrideBodyEnd(t, n + 1)

\* Line 72: (?i)system\s*:.*?(?=\n\n|\n[A-Z]|\Z) matched at index i; the
\* index of the last token of the match, or 0 when there is no match.
SystemOverrideEnd(t, i) ==
    IF t[i] /= SystemWord THEN 0
    ELSE LET j == SkipWhitespace(t, i + 1)
         IN  IF j <= Len(t) /\ t[j] = Colon THEN OverrideBodyEnd(t, j + 1) ELSE 0

\* Lines 288-291 for system_override: the text from index i with every
\* match replaced, and the number of matches.
RECURSIVE SubSystemOverride(_, _)
SubSystemOverride(t, i) ==
    IF i > Len(t) THEN [text |-> <<>>, matches |-> 0]
    ELSE LET e == SystemOverrideEnd(t, i)
         IN  IF e > 0
               THEN LET rest == SubSystemOverride(t, e + 1)
                    IN  [text |-> <<InstructionRemoved>> \o rest.text,
                         matches |-> rest.matches + 1]
               ELSE LET rest == SubSystemOverride(t, i + 1)
                    IN  [text |-> <<t[i]>> \o rest.text, matches |-> rest.matches]

\* The index of the last token of the line that holds index n - 1.
RECURSIVE LineEnd(_, _)
LineEnd(t, n) == IF n > Len(t) \/ t[n] = Newline THEN n - 1 ELSE LineEnd(t, n + 1)

\* Lines 122-127: (?i)(...|system|...)\s+.*?(?=\n|$) matched at index i.
DangerousCommandEnd(t, i) ==
    IF t[i] /= SystemWord THEN 0
    ELSE LET j == SkipWhitespace(t, i + 1)
         IN  IF j = i + 1 THEN 0 ELSE LineEnd(t, j)

RECURSIVE SubDangerousCommand(_, _)
SubDangerousCommand(t, i) ==
    IF i > Len(t) THEN [text |-> <<>>, matches |-> 0]
    ELSE LET e == DangerousCommandEnd(t, i)
         IN  IF e > 0
               THEN LET rest == SubDangerousCommand(t, e + 1)
                    IN  [text |-> <<InstructionRemoved>> \o rest.text,
                         matches |-> rest.matches + 1]
               ELSE LET rest == SubDangerousCommand(t, i + 1)
                    IN  [text |-> <<t[i]>> \o rest.text, matches |-> rest.matches]

\* The index of the last token of the run of tokens of class that starts at
\* index i (i - 1 when t[i] is not of the class).
RECURSIVE RunEnd(_, _, _)
RunEnd(t, i, class) ==
    IF i <= Len(t) /\ t[i] \in class THEN RunEnd(t, i + 1, class) ELSE i - 1

\* pattern.sub(repl, text) and len(pattern.findall(text)) for a pattern
\* [class]{least,}: every run of least or more tokens of the class becomes repl.
RECURSIVE CollapseRuns(_, _, _, _, _)
CollapseRuns(t, i, class, least, repl) ==
    IF i > Len(t) THEN [text |-> <<>>, matches |-> 0]
    ELSE LET e == RunEnd(t, i, class)
         IN  IF e - i + 1 >= least
               THEN LET rest == CollapseRuns(t, e + 1, class, least, repl)
                    IN  [text |-> repl \o rest.text, matches |-> rest.matches + 1]
             ELSE IF e >= i
               THEN LET rest == CollapseRuns(t, e + 1, class, least, repl)
                    IN  [text |-> SubSeq(t, i, e) \o rest.text, matches |-> rest.matches]
             ELSE LET rest == CollapseRuns(t, i + 1, class, least, repl)
                  IN  [text |-> <<t[i]>> \o rest.text, matches |-> rest.matches]

\* Lines 285-293, on a pair of the text and the changes dictionary.
sanitize_instructions(s) ==
    LET a == SubSystemOverride(s.text, 1)
        b == SubDangerousCommand(a.text, 1)
    IN  [text |-> b.text,
         changes |-> Record(Record(s.changes, "system_override", a.matches),
                            "dangerous_command", b.matches)]

\* Lines 308-322.
sanitize_structural_issues(s) ==
    LET a == CollapseRuns(s.text, 1, {Newline}, 3, <<Newline, Newline>>)
        b == CollapseRuns(a.text, 1, Whitespace, 4, <<Space>>)
        c == CollapseRuns(b.text, 1, {ZeroWidth}, 1, <<>>)
        zero_width == Len(SelectSeq(b.text, LAMBDA tok : tok = ZeroWidth))
    IN  [text |-> c.text,
         changes |-> Record(Record(Record(s.changes, "excessive_newlines", a.matches),
                                   "excessive_spaces", b.matches),
                            "zero_width_chars", zero_width)]

\* text.strip()
RECURSIVE LStrip(_)
LStrip(t) == IF t /= <<>> /\ Head(t) \in Whitespace THEN LStrip(Tail(t)) ELSE t

RECURSIVE RStrip(_)
RStrip(t) ==
    IF t /= <<>> /\ t[Len(t)] \in Whitespace THEN RStrip(SubSeq(t, 1, Len(t) - 1)) ELSE t

Strip(t) == RStrip(LStrip(t))

\* Lines 346-360.
final_cleanup(s) ==
    LET a == CollapseRuns(s.text, 1, {Newline}, 3, <<Newline, Newline>>)
        b == CollapseRuns(a.text, 1, {Space}, 2, <<Space>>)
        stripped == Strip(b.text)
    IN  IF TextLen(stripped) < MinContentLength
          THEN [text |-> <<ContentTooShort>>,
                changes |-> [s.changes EXCEPT !["insufficient_content"] = 1]]
          ELSE [text |-> stripped, changes |-> s.changes]

\* Lines 14-21.
SanitizationResult(original_text, sanitized_text, changes_made, is_modified) ==
    [original_text |-> original_text, sanitized_text |-> sanitized_text,
     changes_made |-> changes_made, is_modified |-> is_modified]

\* Lines 202-253, for the context "general".
sanitize_text_for_llm(t) ==
    IF t = <<>> THEN SanitizationResult(t, t, NoChanges, FALSE)
    ELSE LET s == final_cleanup(sanitize_structural_issues(
                      sanitize_instructions([text |-> t, changes |-> NoChanges])))
         IN  SanitizationResult(t, s.text, s.changes, s.text /= t)

OutsideSanitize == <<configVars, queryVars, rrfVars, retrieveVars, validateVars,
                     ingestVars, workerVars, chunkVars, vectorVars, routerVars>>

\* sanitize_text_with_audit(text).
SanitizeCall ==
    /\ san_pc = "input"
    /\ san_result' = sanitize_text_for_llm(san_text)
    /\ san_pc' = "once"
    /\ UNCHANGED <<san_text, san_second, OutsideSanitize>>

\* sanitize_text_with_audit applied to the text the first call returned.
SanitizeAgain ==
    /\ san_pc = "once"
    /\ san_second' = sanitize_text_for_llm(san_result.sanitized_text)
    /\ san_pc' = "twice"
    /\ UNCHANGED <<san_text, san_result, OutsideSanitize>>

SanitizeInit ==
    /\ san_text \in SanTexts
    /\ san_result = None
    /\ san_second = None
    /\ san_pc = "input"

SanitizeIdle ==
    /\ san_text = <<>>
    /\ san_result = None
    /\ san_second = None
    /\ san_pc = "input"

(***************************************************************************)
(* LLMRouter.get_provider_for_role (llm_router.py)                         *)
(*                                                                         *)
(* A provider object is the number of its creation: two objects made from  *)
(* the same configuration row are different providers.  A call is one      *)
(* step; what validate_connection answers is an input of the step.         *)
(***************************************************************************)
MaxProviders == 4

Roles == {"rag_generator", "parser"}

\* provider_name of a configuration row; "openai" stands for any name that
\* _create_provider does not know.
ProviderNames == {"gemini", "ollama", "openai"}

NoConfiguration == "none"

NoProvider == 0

\* _get_active_configuration: the active row of the role, or None.
get_active_configuration(configs, role_name) == configs[role_name]

\* _get_fallback_configuration: any active gemini row, whatever its role.
get_fallback_configuration(configs) ==
    IF \E r \in Roles : configs[r] = "gemini" THEN "gemini" ELSE NoConfiguration

\* _create_provider raises for every provider_name but these two.
CreatesProvider(provider_name) == provider_name \in {"gemini", "ollama"}

\* A cache that keeps the provider that failed validation.
EvictKept(cache, role_name) == cache
\* del self._provider_cache[role_name]
Evict(cache, role_name) == [cache EXCEPT ![role_name] = NoProvider]

\* The cached provider of the role, as a set: empty without an entry.
Stale(role_name) ==
    IF provider_cache[role_name] = NoProvider THEN {} ELSE {provider_cache[role_name]}

\* The cache after lines 37-43 when the call goes on to the database: the
\* role had no entry, or its entry failed validation and was deleted.
AfterCacheCheck(role_name) ==
    IF provider_cache[role_name] = NoProvider
    THEN provider_cache
    ELSE Evict(provider_cache, role_name)

\* History of one call: the provider it returned (or that it raised), the
\* providers whose validate_connection answered True and False in it, the
\* providers it created, and the cache it found.
CallRecord(role_name, how, returned, valid, invalid, first_made, second_made) ==
    [role |-> role_name, outcome |-> how, provider |-> returned,
     validated |-> valid, failed |-> invalid,
     primary |-> first_made, fallback |-> second_made,
     cache_before |-> provider_cache]

OutsideRouter == <<configVars, queryVars, rrfVars, retrieveVars, validateVars, ingestVars,
                   workerVars, chunkVars, sanitizeVars, vectorVars>>

\* Lines 37-40: the role has an entry and the cached provider validates.
GetCachedProvider(role_name) ==
    /\ provider_cache[role_name] # NoProvider
    /\ last_call' = CallRecord(role_name, "returned", provider_cache[role_name],
                               {provider_cache[role_name]}, {}, NoProvider, NoProvider)
    /\ UNCHANGED <<provider_cache, llm_configs, session_local, providers_made, OutsideRouter>>

\* Lines 37-46: no usable entry, and get_db raises because the database was
\* never initialised (database.py 21-24).
GetNoDatabase(role_name) ==
    /\ ~session_local
    /\ provider_cache' = AfterCacheCheck(role_name)
    /\ last_call' = CallRecord(role_name, "raised", NoProvider, {}, Stale(role_name),
                               NoProvider, NoProvider)
    /\ UNCHANGED <<llm_configs, session_local, providers_made, OutsideRouter>>

\* Lines 37-50: no usable entry, and the role has no active configuration.
GetNoConfiguration(role_name) ==
    /\ session_local
    /\ get_active_configuration(llm_configs, role_name) = NoConfiguration
    /\ provider_cache' = AfterCacheCheck(role_name)
    /\ last_call' = CallRecord(role_name, "raised", NoProvider, {}, Stale(role_name),
                               NoProvider, NoProvider)
    /\ UNCHANGED <<llm_configs, session_local, providers_made, OutsideRouter>>

\* Lines 37-53, 134: the active configuration names an unknown provider type.
GetUnknownProvider(role_name) ==
    /\ session_local
    /\ get_active_configuration(llm_configs, role_name) # NoConfiguration
    /\ ~CreatesProvider(get_active_configuration(llm_configs, role_name))
    /\ provider_cache' = AfterCacheCheck(role_name)
    /\ last_call' = CallRecord(role_name, "raised", NoProvider, {}, Stale(role_name),
                               NoProvider, NoProvider)
    /\ UNCHANGED <<llm_configs, session_local, providers_made, OutsideRouter>>

\* Lines 37-56, 74-75: the primary provider is created and validates.
GetPrimaryProvider(role_name) ==
    /\ session_local
    /\ CreatesProvider(get_active_configuration(llm_configs, role_name))
    /\ providers_made + 1 <= MaxProviders
    /\ LET primary == providers_made + 1
       IN  /\ providers_made' = primary
           /\ provider_cache' = [AfterCacheCheck(role_name) EXCEPT ![role_name] = primary]
           /\ last_call' = CallRecord(role_name, "returned", primary, {primary},
                                      Stale(role_name), primary, NoProvider)
    /\ UNCHANGED <<llm_configs, session_local, OutsideRouter>>

\* Lines 37-64, 74-75: the primary provider fails, the fallback validates.
GetFallbackProvider(role_name) ==
    /\ session_local
    /\ CreatesProvider(get_active_configuration(llm_configs, role_name))
    /\ get_fallback_configuration(llm_configs) # NoConfiguration
    /\ providers_made + 2 <= MaxProviders
    /\ LET primary == providers_made + 1
           fallback == providers_made + 2
       IN  /\ providers_made' = fallback
           /\ provider_cache' = [AfterCacheCheck(role_name) EXCEPT ![role_name] = fallback]
           /\ last_call' = CallRecord(role_name, "returned", fallback, {fallback},
                                      Stale(role_name) \cup {primary}, primary, fallback)
    /\ UNCHANGED <<llm_configs, session_local, OutsideRouter>>

\* Lines 37-67: the primary provider and the fallback both fail validation.
GetBothUnavailable(role_name) ==
    /\ session_local
    /\ CreatesProvider(get_active_configuration(llm_configs, role_name))
    /\ get_fallback_configuration(llm_configs) # NoConfiguration
    /\ providers_made + 2 <= MaxProviders
    /\ LET primary == providers_made + 1
           fallback == providers_made + 2
       IN  /\ providers_made' = fallback
           /\ provider_cache' = AfterCacheCheck(role_name)
           /\ last_call' = CallRecord(role_name, "raised", NoProvider, {},
                                      Stale(role_name) \cup {primary, fallback},
                                      primary, fallback)
    /\ UNCHANGED <<llm_configs, session_local, OutsideRouter>>

\* Lines 37-61, 68-71: the primary provider fails and no gemini row is active.
GetNoFallback(role_name) ==
    /\ session_local
    /\ CreatesProvider(get_active_configuration(llm_configs, role_name))
    /\ get_fallback_configuration(llm_configs) = NoConfiguration
    /\ providers_made + 1 <= MaxProviders
    /\ LET primary == providers_made + 1
       IN  /\ providers_made' = primary
           /\ provider_cache' = AfterCacheCheck(role_name)
           /\ last_call' = CallRecord(role_name, "raised", NoProvider, {},
                                      Stale(role_name) \cup {primary}, primary, NoProvider)
    /\ UNCHANGED <<llm_configs, session_local, OutsideRouter>>

\* clear_cache()
ClearCache ==
    /\ provider_cache' = [r \in Roles |-> NoProvider]
    /\ last_call' = None
    /\ UNCHANGED <<llm_configs, session_local, providers_made, OutsideRouter>>

\* initialize_database() sets SessionLocal.
InitializeDatabase ==
    /\ ~session_local
    /\ session_local' = TRUE
    /\ UNCHANGED <<provider_cache, llm_configs, providers_made, last_call, OutsideRouter>>

\* LLMRouter() with the configuration rows the database holds.
RouterInit ==
    /\ provider_cache = [r \in Roles |-> NoProvider]
    /\ llm_configs \in [Roles -> ProviderNames \cup {NoConfiguration}]
    /\ session_local = FALSE
    /\ providers_made = 0
    /\ last_call = None

RouterIdle ==
    /\ provider_cache = [r \in Roles |-> NoProvider]
    /\ llm_configs = [r \in Roles |-> NoConfiguration]
    /\ session_local = FALSE
    /\ providers_made = 0
    /\ last_call = None

vars == <<configVars, queryVars, rrfVars, retrieveVars, validateVars, ingestVars,
          workerVars, chunkVars, sanitizeVars, vectorVars, routerVars>>

\* The configuration store under concurrent callers.
Init ==
    ConfigInit /\ QueryInit /\ RrfIdle /\ RetrieveIdle /\ ValidateIdle /\ IngestInit
    /\ WorkerIdle /\ ChunkIdle /\ SanitizeIdle /\ VectorIdle /\ RouterIdle

Next == \E t \in Threads : ConfigStep(t)

Spec == Init /\ [][Next]_vars

\* One query thread and one thread that reads, updates and resets the
\* configuration while queries are served.
NextQuery == ConfigStep("t1") \/ QueryStep

SpecQuery == Init /\ [][NextQuery]_vars

\* reciprocal_rank_fusion applied to every pair of bounded result lists.
InitRrf ==
    ConfigInit /\ QueryInit /\ RrfInit /\ RetrieveIdle /\ ValidateIdle /\ IngestInit
    /\ WorkerIdle /\ ChunkIdle /\ SanitizeIdle /\ VectorIdle /\ RouterIdle

NextRrf == Fuse

SpecRrf == InitRrf /\ [][NextRrf]_vars

\* hybrid_retrieve applied to every bounded state of the two indices.
InitRetrieve ==
    ConfigInit /\ QueryInit /\ RrfIdle /\ RetrieveInit /\ ValidateIdle /\ IngestInit
    /\ WorkerIdle /\ ChunkIdle /\ SanitizeIdle /\ VectorIdle /\ RouterIdle

NextRetrieve == HybridEmbeddingRaises \/ HybridLexicalOnly \/ HybridFused

SpecRetrieve == InitRetrieve /\ [][NextRetrieve]_vars

\* hybrid_retrieve with a book_id applied to every bounded state of the two
\* indices.
InitScoped ==
    ConfigInit /\ QueryInit /\ RrfIdle /\ ScopedRetrieveInit /\ ValidateIdle /\ IngestInit
    /\ WorkerIdle /\ ChunkIdle /\ SanitizeIdle /\ VectorIdle /\ RouterIdle

SpecScoped == InitScoped /\ [][NextRetrieve]_vars

\* _validate_answer_response applied to every bounded generated object.
InitValidate ==
    ConfigInit /\ QueryInit /\ RrfIdle /\ RetrieveIdle /\ ValidateInit /\ IngestInit
    /\ WorkerIdle /\ ChunkIdle /\ SanitizeIdle /\ VectorIdle /\ RouterIdle

NextValidate == Validate

SpecValidate == InitValidate /\ [][NextValidate]_vars

\* Repeated ingestion passes for one book.
NextIngest ==
    \/ IngestCall
    \/ ProcessCall
    \/ IngestStoreChunk
    \/ IngestCommit
    \/ IngestRollback
    \/ IngestReturn

SpecIngest == Init /\ [][NextIngest]_vars

\* Two queued ingestion jobs under every configured max_tries.
InitWorker ==
    ConfigInit /\ QueryInit /\ RrfIdle /\ RetrieveIdle /\ ValidateIdle /\ IngestInit
    /\ WorkerInit /\ ChunkIdle /\ SanitizeIdle /\ VectorIdle /\ RouterIdle

NextWorker == \E b \in JobBooks : WorkerStep(b)

SpecWorker == InitWorker /\ [][NextWorker]_vars

\* _perform_semantic_chunking applied to every bounded text.
InitChunk ==
    ConfigInit /\ QueryInit /\ RrfIdle /\ RetrieveIdle /\ ValidateIdle /\ IngestInit
    /\ WorkerIdle /\ ChunkInit /\ SanitizeIdle /\ VectorIdle /\ RouterIdle

NextChunk == ChunkSplit \/ ChunkParagraph \/ ChunkFinish

SpecChunk == InitChunk /\ [][NextChunk]_vars

\* sanitize_text_for_llm applied to every bounded text, and then to its own
\* result.
InitSanitize ==
    ConfigInit /\ QueryInit /\ RrfIdle /\ RetrieveIdle /\ ValidateIdle /\ IngestInit
    /\ WorkerIdle /\ ChunkIdle /\ SanitizeInit /\ VectorIdle /\ RouterIdle

NextSanitize == SanitizeCall \/ SanitizeAgain

SpecSanitize == InitSanitize /\ [][NextSanitize]_vars

\* vector_search applied to every bounded index, limit and scope.
InitVector ==
    ConfigInit /\ QueryInit /\ RrfIdle /\ RetrieveIdle /\ ValidateIdle /\ IngestInit
    /\ WorkerIdle /\ ChunkIdle /\ SanitizeIdle /\ VectorInit /\ RouterIdle

NextVector == VectorSearch

SpecVector == InitVector /\ [][NextVector]_vars

InitRouter ==
    ConfigInit /\ QueryInit /\ RrfIdle /\ RetrieveIdle /\ ValidateIdle /\ IngestInit
    /\ WorkerIdle /\ ChunkIdle /\ SanitizeIdle /\ VectorIdle /\ RouterInit

NextRouter ==
    \/ \E role_name \in Roles :
          \/ GetCachedProvider(role_name)
          \/ GetNoDatabase(role_name)
          \/ GetNoConfiguration(role_name)
          \/ GetUnknownProvider(role_name)
          \/ GetPrimaryProvider(role_name)
          \/ GetFallbackProvider(role_name)
          \/ GetBothUnavailable(role_name)
          \/ GetNoFallback(role_name)
    \/ ClearCache
    \/ InitializeDatabase

SpecRouter == InitRouter /\ [][NextRouter]_vars

(***************************************************************************)
(* Properties of the query pipeline (SpecQuery)                            *)
(***************************************************************************)

\* The query holds the configuration it read at line 241.
HasConfig == pc[q] \in {"got", "retrieval_gate", "generate", "generation_gate", "done"}

Finished == pc[q] = "done" /\ ~escaped

\* C1: the generator is invoked if and only if at least config.min_chunks
\* chunks were retrieved; with fewer the response is the 'enough relevant
\* information' fallback and the generator is never called (so with
\* min_chunks = 2 one chunk yields the fallback and two chunks go on to
\* generation).
C1_RetrievalGate ==
    /\ llm_called => Len(chunks) >= ret[q].min_chunks
    /\ Finished =>
         /\ llm_called <=> Len(chunks) >= ret[q].min_chunks
         /\ Len(chunks) < ret[q].min_chunks =>
                response = QueryResponse(None, RetrievalFallback)

C1_Witness ==
    /\ Finished
    /\ ret[q].min_chunks = 2
    /\ Len(chunks) = 1
    /\ ~llm_called
    /\ response = QueryResponse(None, RetrievalFallback)

\* C2: once generation has run, an answer whose confidence equals the
\* threshold (or exceeds it) is returned as the structured answer, and an answer
\* whose confidence is below the threshold by any amount is replaced by the
\* 'not confident enough' fallback.
C2_GenerationGate ==
    (Finished /\ llm_called) =>
        /\ answer /= None
        /\ answer.confidence_score >= ret[q].confidence_threshold =>
                response = QueryResponse(answer, NoMessage)
        /\ answer.confidence_score < ret[q].confidence_threshold =>
                response = QueryResponse(None, GenerationFallback)

C2_Witness ==
    /\ Finished
    /\ llm_called
    /\ ret[q].confidence_threshold = 70
    /\ answer.confidence_score = 70
    /\ response = QueryResponse(answer, NoMessage)

\* C3: every finished call of query_books, whatever failed on the way, holds
\* a QueryResponse in which exactly one of answer and fallback_message is
\* set; an exception is answered with the error message and does not escape.
C3_ExactlyOne ==
    pc[q] = "done" =>
        /\ response /= None
        /\ (response.answer /= None) /= (response.fallback_message /= NoMessage)
        /\ escaped => response = QueryResponse(None, ErrorFallback)

C3_Witness ==
    /\ pc[q] = "done"
    /\ escaped
    /\ llm_called
    /\ response = QueryResponse(None, ErrorFallback)

\* The Answers generate_grounded_answer builds when generation failed upstream.
FallbackAnswers ==
    {create_fallback_answer(m) : m \in {MsgUnavailable, MsgBadJson, MsgInvalid, MsgFailed}}

\* C4: for every accepted configuration, when generation fails upstream
\* (model unavailable, timeout, malformed JSON, validation exception) the
\* response carries a fallback_message and no structured answer.
C4_UpstreamFailureFallsBack ==
    (Finished /\ llm_called /\ answer \in FallbackAnswers) =>
        /\ response.answer = None
        /\ response.fallback_message /= NoMessage

\* C8: a query that gives no top_k retrieves with the retrieval_top_k of the
\* configuration in force (the last successful update), and its gates use
\* that configuration's min_chunks and confidence_threshold.
C8_UpdateTakesEffect ==
    /\ (HasConfig /\ top_k_used /= NoInt /\ ~body.has_top_k) =>
            top_k_used = Some(ret[q].retrieval_top_k)
    /\ C1_RetrievalGate
    /\ C2_GenerationGate

(***************************************************************************)
(* Properties of the configuration store (Spec)                            *)
(***************************************************************************)

\* C5: an update whose argument fails validation raises ValueError and
\* leaves the store untouched: the thread's next get_rag_config returns the
\* configuration that was in force before the rejected update (as long as
\* no other update or reset has replaced it).
C5_RejectedUpdateKeepsConfig ==
    \A t \in Threads :
        /\ (new_config[t] /= None /\ ~Acceptable(new_config[t])) =>
               /\ pc[t] = "rejected"
               /\ raised[t] /= ""
        /\ (pre_config[t] /= None) => Effective(config_store) = pre_config[t]
        /\ (pc[t] = "got" /\ pre_config[t] /= None) => ret[t] = pre_config[t]

C5_Witness ==
    \E t \in Threads :
        /\ pc[t] = "got"
        /\ pre_config[t] /= None
        /\ pre_config[t] /= DEFAULT_CONFIG
        /\ ret[t] = pre_config[t]

\* C6: after any sequence of get, update and reset calls the live
\* configuration satisfies every validation bound.
C6_LiveConfigValid ==
    /\ Acceptable(Effective(config_store))
    /\ \A t \in Threads : pc[t] \in {"got", "updated", "was_reset"} => Acceptable(ret[t])

C6_Witness ==
    /\ config_store /= None
    /\ config_store /= DEFAULT_CONFIG
    /\ \E t \in Threads : pc[t] = "rejected"

\* C7: under every interleaving, each value a get returns is, field for
\* field, the default configuration or the argument of an update that
\* passed validation.
C7_NoTornRead ==
    \A t \in Threads :
        pc[t] = "got" =>
            ret[t] \in {DEFAULT_CONFIG} \cup {c \in ConfigInputs : validate_config(c) = "ok"}

C7_Witness ==
    \E t, u \in Threads :
        /\ t /= u
        /\ pc[t] = "got"
        /\ ret[t] /= DEFAULT_CONFIG
        /\ pc[u] = "upd_body"
        /\ new_config[u] /= ret[t]

\* C9: a get_rag_config that returns while no update has succeeded since
\* process start or since the last reset returns the documented defaults.
C9_DefaultsWhenFresh ==
    [][\A t \in Threads :
          (pc[t] = "get_body" /\ pc'[t] = "got" /\ fresh) => ret'[t] = DEFAULT_CONFIG]_vars

C9_Witness ==
    \E t \in Threads :
        /\ pc[t] = "got"
        /\ fresh
        /\ ever_updated
        /\ config_store = DEFAULT_CONFIG
        /\ ret[t] = DEFAULT_CONFIG

(***************************************************************************)
(* Properties of reciprocal_rank_fusion (SpecRrf)                          *)
(***************************************************************************)

DuplicateFree(results) ==
    \A i, j \in 1..Len(results) : i /= j => results[i][1] /= results[j][1]

\* The position of an id in a duplicate-free list.
PlaceOf(results, id) == CHOOSE i \in 1..Len(results) : results[i][1] = id

\* The sum of 1/(k + rank) over the lists that contain the id.
ExpectedScore(lex, vec, id) ==
    RatAdd(IF id \in IdsOf(lex) THEN <<1, RrfK + PlaceOf(lex, id)>> ELSE RatZero,
           IF id \in IdsOf(vec) THEN <<1, RrfK + PlaceOf(vec, id)>> ELSE RatZero)

\* C10: for duplicate-free input lists the result holds every chunk id of
\* either list exactly once, each with the sum of 1/(k + rank) over the lists
\* containing it (rank 1-based, k = 60), in non-increasing order of score.
C10_FusionScores ==
    (rrf_pc = "fused" /\ DuplicateFree(lexical_results) /\ DuplicateFree(vector_results)) =>
        LET ids == IdsOf(lexical_results) \cup IdsOf(vector_results)
            n == Len(fused_results)
        IN  /\ n = Cardinality(ids)
            /\ {fused_results[i][1] : i \in 1..n} = ids
            /\ \A i \in 1..n :
                   RatEq(fused_results[i][2],
                         ExpectedScore(lexical_results, vector_results, fused_results[i][1]))
            /\ \A i, j \in 1..n :
                   i < j => ~RatLess(fused_results[i][2], fused_results[j][2])

C10_Witness ==
    /\ rrf_pc = "fused"
    /\ DuplicateFree(lexical_results)
    /\ DuplicateFree(vector_results)
    /\ Len(lexical_results) = 2
    /\ Len(vector_results) = 2
    /\ Len(fused_results) = 3
    /\ fused_results[1][1] \in IdsOf(lexical_results) \cap IdsOf(vector_results)
    /\ RatLess(fused_results[3][2], fused_results[1][2])

\* The place and the score of a chunk id in the fused list.
FusedPlace(id) == CHOOSE i \in 1..Len(fused_results) : fused_results[i][1] = id

FusedScore(id) == fused_results[FusedPlace(id)][2]

\* C11: the output order is deterministic: of two chunk ids with equal
\* rrf_score the smaller id comes first.
C11_TiesBySmallerId ==
    rrf_pc = "fused" =>
        \A i, j \in 1..Len(fused_results) :
            (i < j /\ RatEq(fused_results[i][2], fused_results[j][2])) =>
                fused_results[i][1] < fused_results[j][1]

\* The chunk ids of both lists, and those of exactly one.
InBoth == IdsOf(lexical_results) \cap IdsOf(vector_results)

InOne == (IdsOf(lexical_results) \cup IdsOf(vector_results)) \ InBoth

\* The rank of a chunk id of exactly one list, in that list.
SingleRank(id) ==
    IF id \in IdsOf(lexical_results) THEN Rank(lexical_results, id)
    ELSE Rank(vector_results, id)

\* C12: a chunk id of both lists has a strictly greater rrf_score than, and
\* is placed before, every chunk id of only one list whose rank there equals
\* one of its own two ranks.
C12_BothOutranksSingle ==
    rrf_pc = "fused" =>
        \A a \in InBoth : \A b \in InOne :
            SingleRank(b) \in {Rank(lexical_results, a), Rank(vector_results, a)} =>
                /\ RatLess(FusedScore(b), FusedScore(a))
                /\ FusedPlace(a) < FusedPlace(b)

C12_Witness ==
    /\ rrf_pc = "fused"
    /\ \E a \in InBoth : \E b \in InOne :
          /\ b \in IdsOf(lexical_results)
          /\ SingleRank(b) = Rank(vector_results, a)
          /\ SingleRank(b) < Rank(lexical_results, a)
          /\ FusedPlace(a) < FusedPlace(b)

(***************************************************************************)
(* Properties of hybrid_retrieve (SpecRetrieve)                            *)
(***************************************************************************)

\* What lexical search alone finds for the query, cut to top_k.
LexicalOnly == Take(lexical_index.ranked, hr_top_k)

\* C13: when generating the query embedding fails, hybrid_retrieve returns
\* the chunks lexical search finds for the query, not an empty result.
C13_EmbeddingFailureLexicalOnly ==
    (hr_pc = "done" /\ embedding_outcome /= "ok") => retrieved = LexicalOnly

\* C14: with a vector index that fails or returns nothing and a lexical
\* search that succeeds, hybrid_retrieve returns the lexical results in their
\* rank order, cut to top_k; when lexical search fails too the result is
\* empty; no exception leaves hybrid_retrieve.
C14_VectorFailureDegrades ==
    (hr_pc = "done" /\ embedding_outcome = "ok" /\ vector_index.ranked = <<>>) =>
        /\ ~hr_raised
        /\ lexical_index.ok => retrieved = LexicalOnly
        /\ ~lexical_index.ok => retrieved = <<>>

C14_Witness ==
    /\ hr_pc = "done"
    /\ embedding_outcome = "ok"
    /\ ~vector_index.ok
    /\ lexical_index.ok
    /\ Len(lexical_index.ranked) = 2
    /\ hr_top_k = 1
    /\ retrieved = <<lexical_index.ranked[1]>>

(***************************************************************************)
(* Properties of answer validation (SpecValidate, SpecQuery)               *)
(***************************************************************************)

\* The claims of the generated object that have every required field and
\* numeric ids, in their order.
ValidClaimsOf(data) ==
    LET ok == SelectSeq(data.claims, LAMBDA c : c.complete /\ c.numeric)
    IN  [i \in 1..Len(ok) |-> [source_chunk_id |-> ok[i].source_chunk_id]]

\* C15: validation drops each claim that misses a required field or has a
\* non-numeric source_chunk_id and keeps the valid ones; the response as a
\* whole is not failed.
C15_InvalidClaimsDropped ==
    validate_pc = "done" =>
        /\ validated /= ValidationError
        /\ validated.claims = ValidClaimsOf(raw_answer)

\* C16: every claim of an Answer that query_books returns cites the id of a
\* chunk that was in the context given to the generator for that query.
C16_ClaimsCiteContext ==
    (pc[q] = "done" /\ response /= None /\ response.answer /= None) =>
        \A i \in 1..Len(response.answer.claims) :
            \E j \in 1..Len(chunks) :
                response.answer.claims[i].source_chunk_id = chunks[j]

(***************************************************************************)
(* Properties of ingestion (SpecIngest)                                    *)
(***************************************************************************)

\* No ingestion pass is under way.
BetweenPasses == ingest_pc \in {"idle", "returned"}

\* C17: after any ingestion pass, whether it succeeded, rolled back or had
\* an embedding write fail, the chunk ids visible in the chunk store are
\* exactly the chunk ids that have an embedding in the vector index.
C17_DualWrite ==
    BetweenPasses => {r.id : r \in chunks_table} = chunk_embeddings

\* C18: after any number of successful passes for a book the chunk store
\* holds for it exactly the chunks of the latest pass, each chunk_order once.
C18_ReplacedWholesale ==
    (BetweenPasses /\ latest_pass /= 0) =>
        \A book \in IngestedBooks :
            LET rows == {r \in chunks_table : r.book_id = book}
            IN  /\ \A r \in rows : r.pass = latest_pass
                /\ \A r1, r2 \in rows : r1.chunk_order = r2.chunk_order => r1 = r2

(***************************************************************************)
(* Properties of the ingestion job (SpecWorker)                            *)
(***************************************************************************)

\* The dead-letter entries of a book.
DlqOf(b) == SelectSeq(dlq, LAMBDA e : e.book_id = b)

\* C19: a job that fails on every attempt is not dropped silently: for every
\* configured max_tries it ends with exactly one dead-letter entry for its
\* book, written on the final attempt and on no earlier one, and every
\* failed attempt re-raises, so that the queue runs all max_tries attempts.
C19_DeadLetteredOnce ==
    \A b \in JobBooks :
        /\ \A i \in 1..Len(DlqOf(b)) : DlqOf(b)[i].retry_count = worker_max_tries
        /\ job_state[b] = "abandoned" =>
               /\ job_try[b] = worker_max_tries
               /\ Len(DlqOf(b)) = 1

(***************************************************************************)
(* Properties of _perform_semantic_chunking (SpecChunk)                    *)
(***************************************************************************)

\* The text is made of three paragraphs and has been chunked.
ThreeParagraphsChunked == chunk_pc = "done" /\ Len(paragraphs) = 3

\* The length of the paragraphs joined by blank lines.
JoinedParagraphsLen ==
    paragraphs[1].text.len + 2 + paragraphs[2].text.len + 2 + paragraphs[3].text.len

OneChunkOfOrdinalZero == Len(sem_chunks) = 1 /\ sem_chunks[1].chunk_order = 0

\* C20 as stated: a text of 3 paragraphs, each shorter than the chunk size
\* budget, yields exactly one chunk, of chunk_order 0.
C20_ThreeShortParagraphs ==
    (ThreeParagraphsChunked /\ \A i \in 1..3 : paragraphs[i].text.len < chunk_size) =>
        OneChunkOfOrdinalZero

\* C20 as amended: a text of 3 paragraphs whose length joined by blank lines
\* does not exceed the chunk size budget yields exactly one chunk, of
\* chunk_order 0.
C20_ThreeParagraphsWithinBudget ==
    (ThreeParagraphsChunked /\ JoinedParagraphsLen <= chunk_size) => OneChunkOfOrdinalZero

C20_Witness ==
    /\ ThreeParagraphsChunked
    /\ JoinedParagraphsLen <= chunk_size
    /\ JoinedParagraphsLen > DefaultOverlap
    /\ OneChunkOfOrdinalZero
    /\ sem_chunks[1].chunk_text.len = JoinedParagraphsLen

(***************************************************************************)
(* Properties of the chunker's reading order (SpecChunk)                   *)
(***************************************************************************)

\* runs without its first n words.
RECURSIVE DropWords(_, _)
DropWords(runs, n) ==
    IF n <= 0 \/ runs = <<>> THEN runs
    ELSE IF runs[1].n <= n THEN DropWords(Tail(runs), n - runs[1].n)
    ELSE <<[runs[1] EXCEPT !.n = runs[1].n - n]>> \o Tail(runs)

\* The number of words at the head of chunk i that were copied from the end
\* of chunk i - 1.
LeadingOverlap(i) ==
    IF i = 1 THEN 0
    ELSE LET words == RunWords(sem_chunks[i - 1].chunk_text.runs)
         IN  IF words > OverlapMinWords
               THEN IF words < OverlapWords THEN words ELSE OverlapWords
               ELSE 0

\* Chunk i with its leading overlap removed.
OwnWords(i) == DropWords(sem_chunks[i].chunk_text.runs, LeadingOverlap(i))

RECURSIVE OwnWordsUpTo(_)
OwnWordsUpTo(i) == IF i = 0 THEN <<>> ELSE OwnWordsUpTo(i - 1) \o OwnWords(i)

RECURSIVE ParagraphWordsUpTo(_)
ParagraphWordsUpTo(i) ==
    IF i = 0 THEN <<>> ELSE ParagraphWordsUpTo(i - 1) \o paragraphs[i].text.runs

\* The chunks whose own words hold words of paragraph p.
ChunksHolding(p) ==
    {i \in 1..Len(sem_chunks) : \E j \in 1..Len(OwnWords(i)) : OwnWords(i)[j].para = p}

\* C21: the returned chunks have the ordinals 0, 1, ..., n-1 in list order,
\* and the chunks read in that order, each without its leading overlap, are
\* the non-empty paragraphs of the text, each once, in their order and each
\* whole inside one chunk.
C21_ChunksReproduceParagraphs ==
    chunk_pc = "done" =>
        /\ \A i \in 1..Len(sem_chunks) : sem_chunks[i].chunk_order = i - 1
        /\ OwnWordsUpTo(Len(sem_chunks)) = ParagraphWordsUpTo(Len(paragraphs))
        /\ \A p \in 1..Len(paragraphs) : Cardinality(ChunksHolding(p)) = 1

\* A text of three paragraphs cut into two or more chunks, the second of
\* which starts with words copied from the first.
C21_Witness ==
    /\ chunk_pc = "done"
    /\ Len(paragraphs) = 3
    /\ Len(sem_chunks) >= 2
    /\ LeadingOverlap(2) = OverlapWords

(***************************************************************************)
(* Properties of the chunker's page attribution (SpecChunk)                *)
(***************************************************************************)

\* The last paragraph held by chunk i.
LastParagraphOf(i) ==
    LET runs == sem_chunks[i].chunk_text.runs
    IN  CHOOSE p \in {runs[j].para : j \in 1..Len(runs)} :
            \A j \in 1..Len(runs) : runs[j].para <= p

\* The number of the most recent [PAGE n] marker in paragraphs 1..p, and 1
\* when there is none.
RECURSIVE PageSeenUpTo(_)
PageSeenUpTo(p) ==
    IF p = 0 THEN 1
    ELSE IF paragraphs[p].page /= NoInt THEN paragraphs[p].page[1]
    ELSE PageSeenUpTo(p - 1)

\* C26: the page_number of every returned chunk is the number of the most
\* recent [PAGE n] marker seen in the paragraphs up to and including the
\* chunk's own last paragraph (1 when none was seen), never that of a marker
\* of a paragraph of a later chunk.
C26_PageOfOwnParagraphs ==
    chunk_pc = "done" =>
        \A i \in 1..Len(sem_chunks) :
            sem_chunks[i].page_number = PageSeenUpTo(LastParagraphOf(i))

(***************************************************************************)
(* Properties of the sanitizer (SpecSanitize)                              *)
(***************************************************************************)

\* The changes_made dictionary has no key.
NoCategory(result) == \A c \in Categories : result.changes_made[c] = 0

\* The text holds a placeholder token.
HasPlaceholder(t) ==
    \E i \in 1..Len(t) : t[i] \in {InstructionRemoved, ContentTooShort}

\* C22: sanitizing the text a sanitization returned gives the same text with
\* empty changes_made and is_modified false, unless a placeholder of that
\* text matches a pattern (taken here in the widest sense: unless that text
\* holds a placeholder at all).
C22_SecondPassNoOp ==
    (san_pc = "twice" /\ ~HasPlaceholder(san_result.sanitized_text)) =>
        /\ san_second.sanitized_text = san_result.sanitized_text
        /\ NoCategory(san_second)
        /\ ~san_second.is_modified

\* The text holds the role header "System:".
HasSystemHeader(t) ==
    \E i \in 1..Len(t) - 1 : t[i] = SystemWord /\ t[i + 1] = Colon

\* C23: the text the sanitizer returns holds no "System:" header, whatever
\* surrounds the header in the input.
C23_NoSystemHeader ==
    san_pc /= "input" => ~HasSystemHeader(san_result.sanitized_text)

\* C24: for a non-empty input, is_modified is true exactly when changes_made
\* names at least one category.
C24_AuditTrailComplete ==
    (san_pc /= "input" /\ san_text /= <<>>) =>
        (san_result.is_modified <=> ~NoCategory(san_result))

(***************************************************************************)
(* Properties of the query pipeline under the default configuration        *)
(* (SpecQuery)                                                             *)
(***************************************************************************)

\* The query read the default configuration and hybrid_retrieve returned n
\* chunks for it.
DefaultQueryOf(n) ==
    /\ pc[q] = "done"
    /\ ret[q] = DEFAULT_CONFIG
    /\ Len(chunks) = n

\* The query reached the generation step; a generated answer of confidence
\* 0.9 is the response's answer, and one of confidence 0.5 is replaced by the
\* 'not confident enough' message.
GeneratedAndGated ==
    /\ llm_called
    /\ (~escaped /\ answer.confidence_score = 90) =>
            /\ response = QueryResponse(answer, NoMessage)
            /\ response.answer.answer_summary = answer.answer_summary
    /\ (~escaped /\ answer.confidence_score = 50) =>
            response = QueryResponse(None, GenerationFallback)

\* C25 as stated: under the default configuration a query for which
\* hybrid_retrieve returns a single chunk reaches the generation step, and
\* the response carries the generated answer at confidence 0.9 and the 'not
\* confident enough' message at confidence 0.5.
C25_SingleChunkGenerates == DefaultQueryOf(1) => GeneratedAndGated

\* C25 amended: under the default configuration a query for which
\* hybrid_retrieve returns two chunks reaches the generation step, and the
\* response carries the generated answer at confidence 0.9 and the 'not
\* confident enough' message at confidence 0.5.
C25_TwoChunksGenerate == DefaultQueryOf(2) => GeneratedAndGated

C25_Witness ==
    /\ DefaultQueryOf(2)
    /\ ~escaped
    /\ answer.confidence_score = 90
    /\ response = QueryResponse(answer, NoMessage)

(***************************************************************************)
(* The configuration snapshot of a query (SpecQuery)                       *)
(***************************************************************************)

\* C30: a query reads the configuration once, at its start, and evaluates
\* retrieval_top_k, min_chunks and confidence_threshold on that value at
\* every later step, whatever update_rag_config or reset_rag_config has
\* stored meanwhile; the stored value is what the next query reads.
C30_SingleSnapshot ==
    [][/\ (pc[q] = "get_body" /\ pc'[q] = "got") => ret'[q] = Effective(config_store)
       /\ (HasConfig /\ pc'[q] /= "get_lock") => ret'[q] = ret[q]
       /\ (pc[q] = "got" /\ pc'[q] = "retrieval_gate") =>
              top_k_used' = Some(RetrieveTopK(ret[q], QueryRequest(body)))
       /\ (pc[q] = "retrieval_gate" /\ pc'[q] /= "retrieval_gate") =>
              (pc'[q] = "generate" <=> Len(chunks) >= ret[q].min_chunks)
       /\ (pc[q] = "generation_gate" /\ pc'[q] = "done") =>
              (response'.answer /= None <=>
                   answer.confidence_score >= ret[q].confidence_threshold)]_vars

\* A query returned an answer of confidence 0.9 on the threshold 0.7 it had
\* read, while the store holds the threshold 1.0 of a later update.
C30_Witness ==
    /\ Finished
    /\ llm_called
    /\ ret[q].confidence_threshold = 70
    /\ config_store /= None
    /\ config_store.confidence_threshold = 100
    /\ answer.confidence_score = 90
    /\ response = QueryResponse(answer, NoMessage)

(***************************************************************************)
(* Scope isolation of hybrid_retrieve (SpecScoped)                         *)
(***************************************************************************)

\* C29: for a call with a book_id, every chunk hybrid_retrieve returns is a
\* chunk of that book: on the fused path, on the lexical-only path and when
\* either search fails.
C29_ScopeIsolation ==
    (hr_pc = "done" /\ hr_book_id /= NoInt) =>
        \A i \in 1..Len(retrieved) :
            retrieved[i] \in chunk_rows /\ ChunkBook(retrieved[i]) = hr_book_id[1]

\* A fused call for book 1 whose vector index ranks a chunk of book 2 first
\* and a chunk of book 1 after it, and that returned the chunk of book 1.
C29_Witness ==
    /\ hr_pc = "done"
    /\ hr_book_id = Some(1)
    /\ embedding_outcome = "ok"
    /\ vector_index.ranked = <<2, 1>>
    /\ ~lexical_index.ok
    /\ retrieved = <<1>>

(***************************************************************************)
(* Properties of vector_search with a book scope (SpecVector)              *)
(***************************************************************************)

\* The 2 * limit nearest chunks of the unfiltered index.
Nearest == Take(vs_index.ranked, 2 * vs_limit)

\* Chunk id has a row of the book of the call.
OfScope(id) == id \in vs_rows /\ ChunkBook(id) = vs_book_id[1]

\* A scoped call whose queries did not fail.
ScopedSearchDone == vs_pc = "done" /\ vs_book_id /= NoInt /\ vs_lookup_ok

\* C27: a vector_search with a book scope and limit L returns the chunks of
\* the book among the 2 * L nearest unfiltered index results, in index
\* order, cut to at most L; it returns fewer than L when fewer pass the
\* filter, fetches nothing beyond the 2 * L nearest, and returns no chunk of
\* another book.
C27_PostFilterNoBackfill ==
    ScopedSearchDone =>
        /\ IdSeq(vs_result) = Take(SelectSeq(Nearest, OfScope), vs_limit)
        /\ Len(vs_result) <= vs_limit
        /\ \A i \in 1..Len(vs_result) :
               /\ OfScope(vs_result[i][1])
               /\ \E j \in 1..Len(Nearest) : Nearest[j] = vs_result[i][1]

\* A scoped call that returned fewer than limit results although the index
\* ranks a chunk of the book beyond the 2 * limit nearest.
C27_Witness ==
    /\ ScopedSearchDone
    /\ Len(vs_result) < vs_limit
    /\ \E j \in (2 * vs_limit + 1)..Len(vs_index.ranked) : OfScope(vs_index.ranked[j])

(***************************************************************************)
(* Properties of the provider router (SpecRouter)                          *)
(***************************************************************************)

\* The provider the last call should have returned: the cached one when it
\* validated, else the primary, else the fallback.
FirstValidated(call) ==
    IF call.cache_before[call.role] \in call.validated
    THEN call.cache_before[call.role]
    ELSE IF call.primary \in call.validated THEN call.primary ELSE call.fallback

\* What holds after every call of get_provider_for_role.
CallKeepsCacheValidated ==
    last_call # None =>
        LET cached == last_call.cache_before[last_call.role]
        IN  /\ last_call.outcome = "returned" =>
                /\ last_call.provider # NoProvider
                /\ last_call.provider \in last_call.validated
                /\ last_call.provider = FirstValidated(last_call)
                /\ provider_cache[last_call.role] = last_call.provider
            /\ (cached # NoProvider /\ cached \in last_call.failed) =>
                /\ provider_cache[last_call.role] # cached
                /\ last_call.provider # cached
            /\ (cached # NoProvider /\ cached \in last_call.validated) =>
                /\ last_call.primary = NoProvider
                /\ last_call.fallback = NoProvider
            /\ last_call.outcome = "raised" => provider_cache[last_call.role] = NoProvider
            /\ \A r \in Roles \ {last_call.role} :
                  provider_cache[r] = last_call.cache_before[r]

\* A call for the role of the last successful call, in which the provider
\* that call returned validates again, returns that provider and creates none.
RepeatCallReuses ==
    (/\ last_call # None
     /\ last_call.outcome = "returned"
     /\ last_call' # None
     /\ last_call'.role = last_call.role
     /\ last_call.provider \in last_call'.validated)
    => (/\ last_call'.provider = last_call.provider
        /\ providers_made' = providers_made)

\* C28: over any sequence of calls, get_provider_for_role returns only a
\* provider whose validate_connection succeeded in that same call (the
\* cached one, else the primary, else the fallback); a cached provider that
\* fails validation is evicted and not returned; after a successful call the
\* cache entry of the role is the returned provider and a repeat call reuses
\* it without creating a provider; after a call that raises the cache holds
\* no entry for the role.
C28_CacheHoldsValidatedProvider ==
    [](CallKeepsCacheValidated) /\ [][RepeatCallReuses]_vars

\* A cached provider failed validation, was evicted, and the call returned the
\* fallback after the primary failed too.
C28_Witness ==
    /\ last_call # None
    /\ last_call.outcome = "returned"
    /\ last_call.cache_before[last_call.role] # NoProvider
    /\ last_call.cache_before[last_call.role] \in last_call.failed
    /\ last_call.primary \in last_call.failed
    /\ last_call.provider = last_call.fallback
    /\ provider_cache[last_call.role] = last_call.fallback

====
